---------------------------- MODULE Spec2Model ----------------------------
(***************************************************************************)
(* A model of intro-tamer: the fingerprint detector's sliding-window scan, *)
(* the per-file orchestration (process_video_file), the render step, the   *)
(* three batch drivers and the GUI's cooperative stop; and, each on its    *)
(* own, the heuristic detector with its loudness collaborator, the render  *)
(* path's gain curve, the output paths, a stored fingerprint, the          *)
(* similarity scorer, the audio stream addressed and the GUI restarted.    *)
(*                                                                         *)
(* Units.  Audio is a sequence of blocks of HopLength (512) samples, the   *)
(* hop of librosa's analysis frames; a block is abstracted to the feature  *)
(* column <<chroma, mfcc>> librosa derives from it.  Times are integer     *)
(* milliseconds.  A similarity score (cos + 1) / 2 is kept exactly, as the *)
(* signed square of the cosine, a fraction [n, d] (see Score below).       *)
(***************************************************************************)
EXTENDS Integers, Sequences, FiniteSets, TLC

VARIABLES
    det,        \* FingerprintDetector: the detector's configuration and its input buffers
    detResult,  \* FingerprintDetector.detect: what the call returned, and what it scored
    args,       \* process_video_file: its arguments
    pc,         \* process_video_file: where the call stands
    intro_boundaries,  \* process_video_file: the local of that name
    fpAttempt,  \* process_video_file: how the fingerprint attempt ended
    calls,      \* process_video_file: the collaborators invoked so far, in order
    outputFile, \* the file at output_file: "absent", "partial" or "complete"
    reportFile, \* whether the JSON report beside output_file has been written
    exit,       \* process_video_file: "running", "returned" or "exit1" (typer.Exit(1))
    outro_boundaries,  \* process_video_file: the local of that name
    outroAttempt,      \* process_video_file: how the outro detection ended
    driver,     \* batch: which driver runs ("seasons", "gui", "cli")
    threads,    \* batch: max_workers of the thread pool
    disk,       \* batch: per input, the file at its output path
    disk0,      \* batch: disk as it was when the run started
    mainPc,     \* batch: where the driver's own thread stands
    summary,    \* batch: how the driver ended ("complete" is the printed summary)
    task,       \* batch: per input, the state of its future / loop turn
    result,     \* batch: per input, the verdict its worker returned
    collected,  \* batch: the futures as_completed has handed out
    attempts,   \* batch: per input, the process_video_file calls made for it
    successful, \* batch: the counter of that name
    failed,     \* batch: the counter of that name
    cursor,     \* batch: the file the submit loop / the CLI loop is at
    is_processing,  \* GUI: the stop flag
    executor,   \* GUI: self.executor ("none", "open", "shutdown")
    stop,       \* GUI: how far stop_processing has run ("no", "flagged", "done")
    atStop,     \* GUI: task and disk as they were when Stop was pressed
    hdet,       \* HeuristicDetector: its configuration and the loudness of each window
    hdetResult, \* HeuristicDetector.detect: what the call returned
    renderIn,   \* the render path: the boundaries and gain options it starts from
    render_config,  \* the render path: the RenderConfig built from them
    video_files,    \* output paths: the input files one batch run discovered
    written,        \* output paths: the paths written so far, each with its writer
    saved,          \* stored fingerprint: the matrix in the fingerprint file
    saved_sample_rate,  \* stored fingerprint: the sample_rate the file was created with
    ldet,           \* stored fingerprint: the detector constructed from the file
    ldetResult,     \* stored fingerprint: what that detector's detect call did
    lcall,          \* stored fingerprint: the arguments of that detect call
    simIn,          \* _compute_similarity: its two arguments
    simOut,         \* _compute_similarity: what the call computed
    streams,        \* audio stream: the codec types of the input's streams, in file order
    audio_stream_index,  \* audio stream: process_video_file's local of that name
    addressed,      \* audio stream: per collaborator, the streams its -map selected
    streamPc,       \* audio stream: the last collaborator process_video_file invoked
    mdet,           \* loudness measurement: a HeuristicDetector and what ffmpeg yields per window
    mdetResult,     \* loudness measurement: the windows detect collected and what it returned
    gui,            \* GUI restart: is_processing, executor, the buttons and the presses so far
    gthread,        \* GUI restart: per run, its process_videos thread
    gtask,          \* GUI restart: per run and file, the future its thread holds
    gpool,          \* GUI restart: the executors that have been shut down
    gdisk,          \* GUI restart: the files whose output exists
    interference    \* GUI restart: what the first run's thread did to the second run

detVars == <<det, detResult>>

pvfVars == <<args, pc, intro_boundaries, fpAttempt, calls, outputFile, reportFile, exit,
             outro_boundaries, outroAttempt>>

batchVars == <<driver, threads, disk, disk0, mainPc, summary, task, result, collected,
               attempts, successful, failed, cursor, is_processing, executor, stop, atStop>>

heurVars == <<hdet, hdetResult>>

renderVars == <<renderIn, render_config>>

pathVars == <<video_files, written>>

storedVars == <<saved, saved_sample_rate, ldet, ldetResult, lcall>>

simVars == <<simIn, simOut>>

streamVars == <<streams, audio_stream_index, addressed, streamPc>>

measureVars == <<mdet, mdetResult>>

restartVars == <<gui, gthread, gtask, gpool, gdisk, interference>>

lateVars == <<storedVars, simVars, streamVars, measureVars, restartVars>>

otherVars == <<heurVars, renderVars, pathVars, lateVars>>

vars == <<detVars, pvfVars, batchVars, otherVars>>

----------------------------------------------------------------------------
(* Bounds of the model. *)

\* Longest reference clip, in blocks of HopLength samples.
MaxRefBlocks == 2

\* Longest search buffer, in blocks of HopLength samples.
MaxSearchBlocks == 5

\* Number of video files a batch run discovers.
MaxFiles == 3

\* Largest worker count of a thread pool.
MaxThreads == 2

\* Largest number of loudness windows a heuristic search measures.
MaxWindows == 6

\* Latest time, in milliseconds, at which the gain curve is evaluated.
MaxTime == 24

\* The most frames of a feature matrix handed to _compute_similarity directly.
MaxFrames == 2

\* The most streams of an input file.
MaxStreams == 3

\* The most video files in the folder of a restarted GUI run.
MaxRestartFiles == 2

----------------------------------------------------------------------------
(* Values. *)

\* librosa's default hop_length, hard-coded in detect's window arithmetic.
HopLength == 512

\* Optional[...] = None
None == [kind |-> "none"]

\* A call that ended in an exception instead of a value.
Raised == [kind |-> "raise"]

\* The feature columns a block of audio can have: silence, and two
\* non-silent contents with the same chroma and opposite cepstral sign.
BlockVals == {<<0, 0>>, <<1, 1>>, <<1, -1>>}

\* sample_rate is a constructor argument; these two make every division of
\* detect exact (a block is 500 ms or 250 ms, the 0.5 s hop 1 or 2 blocks).
SampleRates == {1024, 2048}

\* search_start, in milliseconds: the start of the file, and one second in.
SearchStarts == {0, 1000}

\* padding_ms as the callers can pass it (200.0 is the default).
Paddings == {0, 200}

Min(a, b) == IF a <= b THEN a ELSE b

Max(a, b) == IF a >= b THEN a ELSE b

\* All sequences over S of length lo..hi.
SeqsOf(S, lo, hi) == UNION {[1..n -> S] : n \in lo..hi}

\* The elements of a sequence.
Range(seq) == {seq[i] : i \in 1..Len(seq)}

----------------------------------------------------------------------------
(* Scores.  A similarity s = (cos + 1) / 2 in [0, 1] is represented by the *)
(* signed square of cos: the fraction n/d with n = sgn(cos) * dot^2 and    *)
(* d = |a|^2 * |b|^2, so that no square root is needed and comparisons are  *)
(* exact.  s = 0.0 is cos = -1 (n = -d), s = 0.5 is cos = 0, s = 1.0 is     *)
(* cos = 1 (n = d).                                                         *)

Score(n, d) == [n |-> n, d |-> d]

ScoreZero == Score(-1, 1)

ScoreHalf == Score(0, 1)

ScoreOne == Score(1, 1)

\* a < b, a = b, a <= b on scores (denominators are positive).
ScoreLt(a, b) == a.n * b.d < b.n * a.d

ScoreEq(a, b) == a.n * b.d = b.n * a.d

ScoreLe(a, b) == a.n * b.d <= b.n * a.d

\* similarity_threshold values a preset can hold: 0.0, the default 0.82
\* (cos = 0.64 = 16/25, signed square 256/625) and 1.0.
Thresholds == {ScoreZero, Score(256, 625), ScoreOne}

----------------------------------------------------------------------------
(* FingerprintDetector *)

\* len(audio) in samples
SampleLen(audio) == HopLength * Len(audio)

\* librosa frames a buffer of n samples into 1 + n // hop_length frames
\* (center=True): frame f is centred on sample f * hop_length.
FrameCount(audio) == 1 + (SampleLen(audio) \div HopLength)

\* The content under frame f (1-based): the block that starts at its centre;
\* the last frame is centred on the end of the buffer and sees the last block.
FrameBlock(audio, f) == audio[Min(f, Len(audio))]

\* _compute_fingerprint: np.vstack([chroma, mfcc]), a matrix kept as the
\* sequence of its rows, the chroma row first; each row runs over the frames.
ComputeFingerprint(audio) ==
    << [f \in 1..FrameCount(audio) |-> FrameBlock(audio, f)[1]],
       [f \in 1..FrameCount(audio) |-> FrameBlock(audio, f)[2]] >>

\* fp.shape[1]
Frames(fp) == Len(fp[1])

\* ndarray.flatten(): row-major, the rows one after the other.
Flatten(fp) == fp[1] \o fp[2]

RECURSIVE DotUpTo(_, _, _)
\* np.dot over the first k elements
DotUpTo(u, v, k) == IF k = 0 THEN 0 ELSE u[k] * v[k] + DotUpTo(u, v, k - 1)

\* _compute_similarity: flatten, truncate both to the shorter length, cosine,
\* rescale to [0, 1]; 0.0 when either norm is zero.
ComputeSimilarity(ref_fp, query_fp) ==
    LET ref_flat   == Flatten(ref_fp)
        query_flat == Flatten(query_fp)
        min_len    == Min(Len(ref_flat), Len(query_flat))
        dot        == DotUpTo(ref_flat, query_flat, min_len)
        norm_ref   == DotUpTo(ref_flat, ref_flat, min_len)
        norm_query == DotUpTo(query_flat, query_flat, min_len)
    IN  IF norm_ref = 0 \/ norm_query = 0
        THEN ScoreZero
        ELSE Score((IF dot < 0 THEN -1 ELSE 1) * dot * dot, norm_ref * norm_query)

\* window_samples = int(ref_duration * sample_rate), where
\* ref_duration = shape[1] / sample_rate * 512
WindowSamples(ref_fp) == Frames(ref_fp) * HopLength

\* hop_samples = int(0.5 * sample_rate)
HopSamples(sample_rate) == sample_rate \div 2

\* search_audio[offset : offset + window_samples], in blocks
WindowAt(search_audio, offset, window_samples) ==
    SubSeq(search_audio, (offset \div HopLength) + 1,
           Min((offset + window_samples) \div HopLength, Len(search_audio)))

\* The loop's bound: range(0, len(search_audio) - window_samples, hop_samples)
ScanStop(search_audio, ref_fp) == SampleLen(search_audio) - WindowSamples(ref_fp)

\* The running best of the scan, with the offsets scored so far.
ScanInit == [best_score |-> ScoreZero, best_offset |-> 0, scored |-> {}, scores |-> <<>>]

\* An iteration that keeps a window no worse than the running best.
LastBestScanStep(d, ref_fp, offset, s) ==
    LET window     == WindowAt(d.search_audio, offset, WindowSamples(ref_fp))
        window_fp  == ComputeFingerprint(window)
        similarity == ComputeSimilarity(ref_fp, window_fp)
        better     == ScoreLe(s.best_score, similarity)
    IN  [best_score  |-> IF better THEN similarity ELSE s.best_score,
         best_offset |-> IF better THEN offset ELSE s.best_offset,
         scored      |-> s.scored \cup {offset},
         scores      |-> Append(s.scores, similarity)]

\* One iteration of the loop: score the window, keep it if strictly better.
ScanStep(d, ref_fp, offset, s) ==
    LET window     == WindowAt(d.search_audio, offset, WindowSamples(ref_fp))
        window_fp  == ComputeFingerprint(window)
        similarity == ComputeSimilarity(ref_fp, window_fp)
        better     == ScoreLt(s.best_score, similarity)
    IN  [best_score  |-> IF better THEN similarity ELSE s.best_score,
         best_offset |-> IF better THEN offset ELSE s.best_offset,
         scored      |-> s.scored \cup {offset},
         scores      |-> Append(s.scores, similarity)]

RECURSIVE Scan(_, _, _, _)
\* for offset in range(0, stop, hop_samples): ...
Scan(d, ref_fp, offset, s) ==
    IF offset < ScanStop(d.search_audio, ref_fp)
    THEN Scan(d, ref_fp, offset + HopSamples(d.sample_rate), ScanStep(d, ref_fp, offset, s))
    ELSE s

\* Whole seconds only: the division taken before the scaling.
TruncatedSeconds(samples, sample_rate) == (samples \div sample_rate) * 1000

\* offset / sample_rate, in milliseconds
SamplesToMs(samples, sample_rate) == (samples * 1000) \div sample_rate

\* IntroBoundaries(start, end, confidence, method)
Boundaries(start, end, confidence, method) ==
    [kind |-> "boundaries", start |-> start, end |-> end,
     confidence |-> confidence, method |-> method]

\* FingerprintDetector.detect with self.reference_fingerprint = ref_fp, from
\* the extracted search buffer on: the scan,
\* the threshold test, and the conversion of the best offset to boundaries.
DetectFrom(d, ref_fp) ==
    LET s      == Scan(d, ref_fp, 0, ScanInit)
        match_start_time == d.search_start + SamplesToMs(s.best_offset, d.sample_rate)
        match_end_time   == match_start_time + SamplesToMs(WindowSamples(ref_fp), d.sample_rate)
        intro_start == Max(0, match_start_time - d.padding_ms)
        intro_end   == match_end_time + d.padding_ms
    IN  [returned |-> IF ScoreLt(s.best_score, d.similarity_threshold)
                      THEN None
                      ELSE Boundaries(intro_start, intro_end, s.best_score, "fingerprint"),
         scored   |-> s.scored,
         scores   |-> s.scores,
         called   |-> TRUE]

\* detect of a detector constructed with reference_audio:
\* self.reference_fingerprint = self._compute_fingerprint(reference_audio)
Detect(d) == DetectFrom(d, ComputeFingerprint(d.reference_audio))

\* The detector configurations and buffers the model enumerates.
DetInputs ==
    [reference_audio      : SeqsOf(BlockVals, 1, MaxRefBlocks),
     search_audio         : SeqsOf(BlockVals, 0, MaxSearchBlocks),
     sample_rate          : SampleRates,
     similarity_threshold : Thresholds,
     padding_ms           : Paddings,
     search_start         : {0}]

\* No detect call has been made.
NotCalled == [returned |-> None, scored |-> {}, scores |-> <<>>, called |-> FALSE]

\* detector.detect(...)
DetectCall ==
    /\ ~detResult.called
    /\ detResult' = Detect(det)
    /\ UNCHANGED <<det, pvfVars, batchVars, otherVars>>

----------------------------------------------------------------------------
(* HeuristicDetector *)

\* window_size = 5.0 seconds
WindowSize == 5

\* hop_size = 2.0 seconds
HopSize == 2

\* min(self.search_window_seconds, 300.0)
SearchCap == 300

\* The heuristic's fixed confidence 0.6, as a score: cos = 0.2, squared 1/25.
HeuristicConfidence == Score(1, 25)

\* search_end = min(self.search_window_seconds, 300.0)
SearchEnd(h) == Min(h.search_window_seconds, SearchCap)

\* len(np.arange(0.0, search_end - window_size, hop_size))
WindowCount(h) ==
    LET span == SearchEnd(h) - WindowSize
    IN  IF span <= 0 THEN 0 ELSE (span + HopSize - 1) \div HopSize

\* Times that would be one hop late; the code's follow.
LateWindowTime(i) == i * HopSize

\* times[i], 1-based: the start of the i-th measured window, in seconds
WindowTime(i) == (i - 1) * HopSize

\* An end estimate that ignores where the search stops.
UncappedDefaultEnd(h, intro_start) == intro_start + h.max_intro_seconds

\* intro_end = min(intro_start + self.max_intro_seconds, search_end)
DefaultEnd(h, intro_start) == Min(intro_start + h.max_intro_seconds, SearchEnd(h))

\* An end left where the scan put it.
NoMinimum(h, intro_start, intro_end) == intro_end

\* if intro_end - intro_start < self.min_intro_seconds:
\*     intro_end = intro_start + self.min_intro_seconds
EnsureMinimum(h, intro_start, intro_end) ==
    IF intro_end - intro_start < h.min_intro_seconds
    THEN intro_start + h.min_intro_seconds
    ELSE intro_end

\* HeuristicDetector.detect on the measured loudnesses L (one per window, in
\* dB): the first rise of at least the threshold starts the intro, the first
\* later drop of at least the threshold below the start window ends it.
HeuristicDetect(h, L) ==
    LET n      == Len(L)
        rises  == {i \in 2..n : L[i] - L[i - 1] >= h.loudness_threshold_db}
    IN  IF n < 2 \/ rises = {}
        THEN None
        ELSE LET i     == CHOOSE x \in rises : \A y \in rises : x <= y
                 intro_start == WindowTime(i)
                 drops == {j \in (i + 1)..n : L[i] - L[j] >= h.loudness_threshold_db}
                 refined == IF drops = {}
                            THEN DefaultEnd(h, intro_start)
                            ELSE WindowTime(CHOOSE x \in drops : \A y \in drops : x <= y)
                                   + WindowSize
                 intro_end == EnsureMinimum(h, intro_start, refined)
             IN  Boundaries(intro_start * 1000, intro_end * 1000,
                            HeuristicConfidence, "heuristic")

----------------------------------------------------------------------------
(* process_video_file *)

\* The --intro-start / --intro-end strings the model passes, each as the list
\* of its ":"-separated numbers (seconds); <<>> is an option not given.
TimeStrings == {<<>>, <<10>>, <<-5>>, <<0, 30>>, <<0, 1, 0>>}

\* parse_time: "H:M:S" and "M:S" by their parts, anything else by float().
parse_time(time_str) ==
    IF Len(time_str) = 3
    THEN time_str[1] * 3600 + time_str[2] * 60 + time_str[3]
    ELSE IF Len(time_str) = 2
         THEN time_str[1] * 60 + time_str[2]
         ELSE time_str[1]

\* The preset argument: no preset, a name with no file (load_preset raises
\* FileNotFoundError), a preset without and one with a reference fingerprint.
PresetArgs == {"none", "missing", "plain", "fingerprint"}

\* The Preset record a found preset file yields: the defaults of the class,
\* except for a short search window (three loudness windows).
ThePreset ==
    [search_window_seconds |-> 11, min_intro_seconds |-> 15,
     max_intro_seconds |-> 90, similarity_threshold |-> Score(256, 625)]

\* loaded_preset is not None
PresetLoaded(a) == a.preset \in {"plain", "fingerprint"}

\* loaded_preset and loaded_preset.reference_fingerprint
FingerprintConfigured(a) == a.preset = "fingerprint"

\* if intro_start and intro_end
ManualGiven(a) == a.intro_start # <<>> /\ a.intro_end # <<>>

\* What the fingerprint attempt can come to: an exception (no fingerprint
\* file, extraction failed), or what detect returns on some search buffer.
FingerprintOutcomes ==
    {Raised} \cup
    {Detect([reference_audio |-> <<<<1, 1>>>>, search_audio |-> a, sample_rate |-> 1024,
             similarity_threshold |-> ThePreset.similarity_threshold,
             padding_ms |-> 200, search_start |-> 0]).returned :
        a \in SeqsOf(BlockVals, 0, 3)}

\* The HeuristicDetector process_video_file constructs.
HeuristicConfig(a) ==
    [search_window_seconds |-> IF PresetLoaded(a) THEN ThePreset.search_window_seconds ELSE 150,
     min_intro_seconds     |-> IF PresetLoaded(a) THEN ThePreset.min_intro_seconds ELSE 15,
     max_intro_seconds     |-> IF PresetLoaded(a) THEN ThePreset.max_intro_seconds ELSE 90,
     loudness_threshold_db |-> 3]

\* What the heuristic attempt can come to: an exception, or what detect
\* returns on some measured loudnesses (over the preset's short window).
HeuristicOutcomes ==
    {Raised} \cup
    {HeuristicDetect([HeuristicConfig([preset |-> "plain"]) EXCEPT !.search_window_seconds = 11], L) :
        L \in [1..3 -> {-25, -18}]}

\* A fallback rule that looks at allow_fallback alone; the code's rule
\* below also requires that the fingerprint attempt left no Boundaries.
FallbackRegardless(boundaries, allow_fallback) == allow_fallback

\* if intro_boundaries is None and allow_fallback
FallbackNeeded(boundaries, allow_fallback) == boundaries = None /\ allow_fallback

\* A check that lets a run without Boundaries through; the code's check
\* follows.
DetectionNeverFailed(boundaries) == FALSE

\* if intro_boundaries is None: ... raise typer.Exit(1)
DetectionFailed(boundaries) == boundaries = None

PvfArgs ==
    [input_exists      : BOOLEAN,
     intro_start       : TimeStrings,
     intro_end         : TimeStrings,
     preset            : PresetArgs,
     allow_fallback    : BOOLEAN,
     dry_run           : BOOLEAN,
     report_json       : BOOLEAN,
     target_intro_lufs : BOOLEAN]

\* A call of process_video_file with a fresh output path.
PvfInit ==
    /\ args \in PvfArgs
    /\ pc = "start"
    /\ intro_boundaries = None
    /\ fpAttempt = "pending"
    /\ calls = <<>>
    /\ outputFile = "absent"
    /\ reportFile = FALSE
    /\ exit = "running"
    /\ outro_boundaries = None
    /\ outroAttempt = "pending"

\* raise typer.Exit(1)
Exit1 == pc' = "done" /\ exit' = "exit1"

\* The input check, the preset load and the media probe.
PvfOpen ==
    /\ pc = "start"
    /\ \/ /\ ~args.input_exists
          /\ Exit1
          /\ UNCHANGED calls
       \/ /\ args.input_exists
          /\ calls' = Append(calls, "probe")
          /\ \/ Exit1                \* probe_media raised
             \/ pc' = "detect" /\ UNCHANGED exit
    /\ UNCHANGED <<args, outro_boundaries, outroAttempt, intro_boundaries, fpAttempt, outputFile, reportFile, detVars, batchVars,
                   otherVars>>

\* Manual boundaries: both --intro-start and --intro-end given.
PvfManual ==
    /\ pc = "detect"
    /\ ManualGiven(args)
    /\ intro_boundaries' = Boundaries(parse_time(args.intro_start) * 1000,
                                      parse_time(args.intro_end) * 1000,
                                      ScoreOne, "manual")
    /\ pc' = "gain"
    /\ UNCHANGED <<args, outro_boundaries, outroAttempt, fpAttempt, calls, outputFile, reportFile, exit, detVars, batchVars,
                   otherVars>>

\* The fingerprint attempt, when the preset names a reference fingerprint;
\* an exception is caught and leaves intro_boundaries None.
PvfFingerprint ==
    /\ pc = "detect"
    /\ ~ManualGiven(args)
    /\ IF FingerprintConfigured(args)
       THEN \E r \in FingerprintOutcomes :
               /\ calls' = Append(calls, "fingerprint")
               /\ intro_boundaries' = IF r = Raised THEN None ELSE r
               /\ fpAttempt' = IF r = Raised THEN "raised"
                               ELSE IF r = None THEN "none" ELSE "boundaries"
       ELSE /\ fpAttempt' = "not_configured"
            /\ UNCHANGED <<calls, intro_boundaries>>
    /\ pc' = "fallback"
    /\ UNCHANGED <<args, outro_boundaries, outroAttempt, outputFile, reportFile, exit, detVars, batchVars,
                   otherVars>>

\* The heuristic fallback; an exception is caught.
PvfHeuristic ==
    /\ pc = "fallback"
    /\ IF FallbackNeeded(intro_boundaries, args.allow_fallback)
       THEN \E r \in HeuristicOutcomes :
               /\ calls' = Append(calls, "heuristic")
               /\ intro_boundaries' = IF r = Raised THEN intro_boundaries ELSE r
       ELSE UNCHANGED <<calls, intro_boundaries>>
    /\ pc' = "check"
    /\ UNCHANGED <<args, outro_boundaries, outroAttempt, fpAttempt, outputFile, reportFile, exit, detVars, batchVars,
                   otherVars>>

\* No strategy produced boundaries: the hard stop for this file.
PvfCheck ==
    /\ pc = "check"
    /\ IF DetectionFailed(intro_boundaries)
       THEN Exit1
       ELSE pc' = "gain" /\ UNCHANGED exit
    /\ UNCHANGED <<args, outro_boundaries, outroAttempt, intro_boundaries, fpAttempt, calls, outputFile, reportFile, detVars, batchVars,
                   otherVars>>

\* The gain: measured against target_intro_lufs (a failed measurement ends
\* the call), or a fixed duck amount (with report_json the loudness is
\* measured for the report, and a failure there is swallowed).
PvfGain ==
    /\ pc = "gain"
    /\ IF args.target_intro_lufs
       THEN /\ calls' = Append(calls, "measure")
            /\ \/ Exit1
               \/ pc' = "outro" /\ UNCHANGED exit
       ELSE /\ calls' = IF args.report_json THEN Append(calls, "measure") ELSE calls
            /\ pc' = "outro"
            /\ UNCHANGED exit
    /\ UNCHANGED <<args, outro_boundaries, outroAttempt, intro_boundaries, fpAttempt, outputFile, reportFile, detVars, batchVars,
                   otherVars>>

\* The parameters FingerprintDetector.detect declares.
DetectParams ==
    {"video_path", "search_start", "search_duration", "audio_stream_index", "padding_ms"}

\* The keyword arguments of the outro call, besides the positional path.
OutroKeywords == {"search_start", "search_duration", "audio_stream_index", "search_from_end"}

\* A call binds its keywords to declared parameters; any other keyword is
\* a TypeError before the body runs.
CallAccepted(keywords) == keywords \subseteq DetectParams

\* The TypeError of a call with an undeclared keyword.
TypeError == [kind |-> "TypeError"]

\* What the outro attempt can come to: the constructor raises (no
\* fingerprint file), or detect is called with OutroKeywords.
OutroOutcomes ==
    {Raised} \cup (IF CallAccepted(OutroKeywords) THEN FingerprintOutcomes ELSE {TypeError})

\* Outro detection with the same fingerprint; every exception is caught
\* and leaves outro_boundaries None.
PvfOutro ==
    /\ pc = "outro"
    /\ IF FingerprintConfigured(args)
       THEN \E r \in OutroOutcomes :
               /\ calls' = Append(calls, "outro")
               /\ outro_boundaries' = IF r \in {Raised, TypeError} THEN None ELSE r
               /\ outroAttempt' = IF r = Raised THEN "raised"
                                  ELSE IF r = TypeError THEN "TypeError"
                                  ELSE IF r = None THEN "none" ELSE "boundaries"
       ELSE /\ outroAttempt' = "not_configured"
            /\ UNCHANGED <<calls, outro_boundaries>>
    /\ pc' = "config"
    /\ UNCHANGED <<args, intro_boundaries, fpAttempt, outputFile, reportFile, exit, detVars, batchVars,
                   otherVars>>

\* RenderConfig(...), then the dry-run return.
PvfConfig ==
    /\ pc = "config"
    /\ IF args.dry_run
       THEN pc' = "done" /\ exit' = "returned"
       ELSE pc' = "render" /\ UNCHANGED exit
    /\ UNCHANGED <<args, outro_boundaries, outroAttempt, intro_boundaries, fpAttempt, calls, outputFile, reportFile, detVars, batchVars,
                   otherVars>>

\* render_video up to the start of ffmpeg: the probe or the stream lookup
\* may raise; otherwise ffmpeg opens output_path itself (-y) and writes.
PvfRenderBegin ==
    /\ pc = "render"
    /\ calls' = Append(calls, "render")
    /\ \/ Exit1 /\ UNCHANGED outputFile
       \/ pc' = "rendering" /\ outputFile' = "partial" /\ UNCHANGED exit
    /\ UNCHANGED <<args, outro_boundaries, outroAttempt, intro_boundaries, fpAttempt, reportFile, detVars, batchVars,
                   otherVars>>

\* ffmpeg ends: exit status 0, or an error or a kill part-way
\* (subprocess.run(check=True) raises, process_video_file exits with 1).
PvfRenderEnd ==
    /\ pc = "rendering"
    /\ \/ Exit1 /\ UNCHANGED outputFile
       \/ pc' = "report" /\ outputFile' = "complete" /\ UNCHANGED exit
    /\ UNCHANGED <<args, outro_boundaries, outroAttempt, intro_boundaries, fpAttempt, calls, reportFile, detVars, batchVars,
                   otherVars>>

\* The JSON report, beside the output file.
PvfReport ==
    /\ pc = "report"
    /\ reportFile' = args.report_json
    /\ pc' = "done"
    /\ exit' = "returned"
    /\ UNCHANGED <<args, outro_boundaries, outroAttempt, intro_boundaries, fpAttempt, calls, outputFile, detVars, batchVars,
                   otherVars>>

----------------------------------------------------------------------------
(* The batch drivers: process_all_seasons ("seasons"), the GUI's            *)
(* process_videos with its worker process_single_file ("gui"), and the CLI  *)
(* batch command ("cli").  A file is named by its place in the sorted list  *)
(* of discovered inputs; disk[f] is the file at f's output path.  Inside a  *)
(* driver a process_video_file call is a step with one of the outcomes      *)
(* SpecFile shows it to have.                                               *)

Files == 1..MaxFiles

Drivers == {"seasons", "gui", "cli"}

\* output_file.exists()
Exists(state) == state # "absent"

\* How a process_video_file call can end for its caller: normally, with
\* typer.Exit(1) (before or after ffmpeg began to write the output), or
\* with another exception.
PvfOutcomes == {"returned", "typer.Exit", "typer.Exit-partial", "Exception"}

\* The file at the output path after the call.
DiskAfter(before, outcome) ==
    IF outcome = "returned" THEN "complete"
    ELSE IF outcome = "typer.Exit-partial" THEN "partial"
    ELSE before

\* A handler that would catch only plain exceptions and let the error
\* exit through; the code's handler follows.
OnlyPlainExceptionCaught(outcome) == outcome = "Exception"

\* `except Exception` around the call: typer.Exit is click's Exit, a
\* RuntimeError, and so is caught like any other Exception.
ExceptionCaught(outcome) == outcome \in {"typer.Exit", "typer.Exit-partial", "Exception"}

\* A worker that would not look at the flag; the code's test follows.
WorkerNeverTurnedAway(flag) == FALSE

\* process_single_file: if not self.is_processing: return None, "stopped"
WorkerTurnedAway(flag) == ~flag

\* Tasks a pool worker is executing.
Running == {f \in Files : task[f] \in {"started", "checked", "processing"}}

\* Futures that are done but that as_completed has not yet handed out.
Uncollected == {f \in Files : task[f] \in {"finished", "cancelled"} /\ f \notin collected}

BatchInit ==
    /\ driver \in Drivers
    /\ threads \in 1..MaxThreads
    /\ disk \in [Files -> {"absent", "complete"}]
    /\ disk0 = disk
    /\ mainPc = IF driver = "cli" THEN "loop" ELSE "filter"
    /\ summary = "none"
    /\ task = [f \in Files |-> "none"]
    /\ result = [f \in Files |-> "none"]
    /\ collected = {}
    /\ attempts = [f \in Files |-> 0]
    /\ successful = 0
    /\ failed = 0
    /\ cursor = 1
    /\ is_processing = (driver = "gui")
    /\ executor = "none"
    /\ stop = "no"
    /\ atStop = None

\* process_all_seasons up to the submission of every remaining file:
\* files whose output exists are skipped and counted as successful.
SeasonsFilter ==
    /\ driver = "seasons" /\ mainPc = "filter"
    /\ LET remaining == {f \in Files : ~Exists(disk[f])}
       IN  IF remaining = {}
           THEN /\ mainPc' = "done" /\ summary' = "all_processed"
                /\ UNCHANGED <<task, successful, executor>>
           ELSE /\ successful' = Cardinality(Files \ remaining)
                /\ executor' = "open"
                /\ task' = [f \in Files |-> IF f \in remaining THEN "pending" ELSE "none"]
                /\ mainPc' = "collect"
                /\ UNCHANGED summary
    /\ UNCHANGED <<driver, threads, disk, disk0, result, collected, attempts, failed,
                   cursor, is_processing, stop, atStop, detVars, pvfVars,
                   otherVars>>

\* process_videos up to the creation of the executor: the same filter, the
\* skipped files counted under the lock.
GuiFilter ==
    /\ driver = "gui" /\ mainPc = "filter"
    /\ LET remaining == {f \in Files : ~Exists(disk[f])}
       IN  /\ successful' = successful + Cardinality(Files \ remaining)
           /\ IF remaining = {}
              THEN /\ is_processing' = FALSE
                   /\ mainPc' = "done" /\ summary' = "all_processed"
                   /\ UNCHANGED <<executor, cursor>>
              ELSE /\ executor' = "open"
                   /\ cursor' = CHOOSE f \in remaining : \A g \in remaining : f <= g
                   /\ mainPc' = "submit_check"
                   /\ UNCHANGED <<is_processing, summary>>
    /\ UNCHANGED <<driver, threads, disk, disk0, task, result, collected, attempts, failed,
                   stop, atStop, detVars, pvfVars,
                   otherVars>>

\* The submit loop's test: if not self.is_processing: break
GuiSubmitCheck ==
    /\ driver = "gui" /\ mainPc = "submit_check"
    /\ mainPc' = IF is_processing THEN "submit" ELSE "collect"
    /\ UNCHANGED <<driver, threads, disk, disk0, summary, task, result, collected, attempts,
                   successful, failed, cursor, is_processing, executor, stop, atStop,
                   detVars, pvfVars,
                   otherVars>>

\* self.executor.submit(...): a RuntimeError after shutdown, which ends the
\* process_videos thread; otherwise the future is pending and the loop
\* moves to the next remaining file.
GuiSubmit ==
    /\ driver = "gui" /\ mainPc = "submit"
    /\ IF executor = "shutdown"
       THEN /\ mainPc' = "done" /\ summary' = "crashed"
            /\ UNCHANGED <<task, cursor>>
       ELSE LET later == {f \in Files : f > cursor /\ ~Exists(disk0[f])}
            IN  /\ task' = [task EXCEPT ![cursor] = "pending"]
                /\ IF later = {}
                   THEN mainPc' = "collect" /\ UNCHANGED cursor
                   ELSE /\ mainPc' = "submit_check"
                        /\ cursor' = CHOOSE f \in later : \A g \in later : f <= g
                /\ UNCHANGED summary
    /\ UNCHANGED <<driver, threads, disk, disk0, result, collected, attempts, successful,
                   failed, is_processing, executor, stop, atStop, detVars, pvfVars,
                   otherVars>>

\* A pool worker takes a pending future.  process_file calls
\* process_video_file at once; process_single_file first tests the flag.
WorkerStart(f) ==
    /\ driver \in {"seasons", "gui"}
    /\ task[f] = "pending"
    /\ Cardinality(Running) < threads
    /\ IF driver = "seasons"
       THEN /\ task' = [task EXCEPT ![f] = "processing"]
            /\ attempts' = [attempts EXCEPT ![f] = @ + 1]
       ELSE /\ task' = [task EXCEPT ![f] = "started"]
            /\ UNCHANGED attempts
    /\ UNCHANGED <<driver, threads, disk, disk0, mainPc, summary, result, collected,
                   successful, failed, cursor, is_processing, executor, stop, atStop,
                   detVars, pvfVars,
                   otherVars>>

\* process_single_file: the stop flag test.
GuiWorkerCheck(f) ==
    /\ driver = "gui"
    /\ task[f] = "started"
    /\ IF WorkerTurnedAway(is_processing)
       THEN /\ task' = [task EXCEPT ![f] = "finished"]
            /\ result' = [result EXCEPT ![f] = "stopped"]
       ELSE /\ task' = [task EXCEPT ![f] = "checked"]
            /\ UNCHANGED result
    /\ UNCHANGED <<driver, threads, disk, disk0, mainPc, summary, collected, attempts,
                   successful, failed, cursor, is_processing, executor, stop, atStop,
                   detVars, pvfVars,
                   otherVars>>

\* process_single_file: the output path, the second existence test, and
\* the call of process_video_file.
GuiWorkerCall(f) ==
    /\ driver = "gui"
    /\ task[f] = "checked"
    /\ IF Exists(disk[f])
       THEN /\ task' = [task EXCEPT ![f] = "finished"]
            /\ result' = [result EXCEPT ![f] = "skipped"]
            /\ successful' = successful + 1
            /\ UNCHANGED attempts
       ELSE /\ task' = [task EXCEPT ![f] = "processing"]
            /\ attempts' = [attempts EXCEPT ![f] = @ + 1]
            /\ UNCHANGED <<result, successful>>
    /\ UNCHANGED <<driver, threads, disk, disk0, mainPc, summary, collected, failed,
                   cursor, is_processing, executor, stop, atStop, detVars, pvfVars,
                   otherVars>>

\* process_video_file ends inside a worker.  The GUI worker counts under
\* its lock; process_file only returns its verdict.  An exception that the
\* worker does not catch is left in the future.
WorkerFinish(f) ==
    /\ driver \in {"seasons", "gui"}
    /\ task[f] = "processing"
    /\ \E outcome \in PvfOutcomes :
          /\ disk' = [disk EXCEPT ![f] = DiskAfter(@, outcome)]
          /\ result' = [result EXCEPT ![f] =
                           IF outcome = "returned" THEN "success"
                           ELSE IF ExceptionCaught(outcome) THEN "error" ELSE "raised"]
          /\ IF driver = "gui"
             THEN /\ successful' = IF outcome = "returned" THEN successful + 1 ELSE successful
                  /\ failed' = IF outcome # "returned" /\ ExceptionCaught(outcome)
                               THEN failed + 1 ELSE failed
             ELSE UNCHANGED <<successful, failed>>
    /\ task' = [task EXCEPT ![f] = "finished"]
    /\ UNCHANGED <<driver, threads, disk0, mainPc, summary, collected, attempts, cursor,
                   is_processing, executor, stop, atStop, detVars, pvfVars,
                   otherVars>>

\* process_all_seasons: one turn of `for future in as_completed(futures)`,
\* and after the last future the summary.  future.result() re-raises what
\* the worker did not catch, and the summary is never printed.
SeasonsCollect ==
    /\ driver = "seasons" /\ mainPc = "collect"
    /\ IF \A f \in Files : task[f] = "none" \/ f \in collected
       THEN /\ mainPc' = "done" /\ summary' = "complete"
            /\ UNCHANGED <<collected, successful, failed>>
       ELSE \E f \in Uncollected :
               /\ collected' = collected \cup {f}
               /\ IF result[f] = "raised"
                  THEN /\ mainPc' = "done" /\ summary' = "aborted"
                       /\ UNCHANGED <<successful, failed>>
                  ELSE /\ successful' = IF result[f] = "success" THEN successful + 1 ELSE successful
                       /\ failed' = IF result[f] = "success" THEN failed ELSE failed + 1
                       /\ UNCHANGED <<mainPc, summary>>
    /\ UNCHANGED <<driver, threads, disk, disk0, task, result, attempts, cursor,
                   is_processing, executor, stop, atStop, detVars, pvfVars,
                   otherVars>>

\* process_videos: one turn of `for future in as_completed(futures)`; the
\* loop ends after the last future, on a cleared flag or a "stopped" result.
GuiCollect ==
    /\ driver = "gui" /\ mainPc = "collect"
    /\ IF \A f \in Files : task[f] = "none" \/ f \in collected
       THEN mainPc' = "shutdown" /\ UNCHANGED <<collected, summary>>
       ELSE \E f \in Uncollected :
               IF ~is_processing
               THEN mainPc' = "shutdown" /\ UNCHANGED <<collected, summary>>
               ELSE IF result[f] = "raised"
               THEN mainPc' = "done" /\ summary' = "aborted" /\ UNCHANGED collected
               ELSE /\ collected' = collected \cup {f}
                    /\ mainPc' = IF result[f] = "stopped" THEN "shutdown" ELSE mainPc
                    /\ UNCHANGED summary
    /\ UNCHANGED <<driver, threads, disk, disk0, task, result, attempts, successful, failed,
                   cursor, is_processing, executor, stop, atStop, detVars, pvfVars,
                   otherVars>>

\* process_videos: self.executor.shutdown(wait=True), which returns once no
\* future is pending or running, then the summary.
GuiShutdown ==
    /\ driver = "gui" /\ mainPc = "shutdown"
    /\ \A f \in Files : task[f] \in {"none", "finished", "cancelled"}
    /\ executor' = "none"
    /\ is_processing' = FALSE
    /\ mainPc' = "done" /\ summary' = "complete"
    /\ UNCHANGED <<driver, threads, disk, disk0, task, result, collected, attempts,
                   successful, failed, cursor, stop, atStop, detVars, pvfVars,
                   otherVars>>

\* The CLI batch loop: process_video_file for the next discovered file,
\* whatever is on disk; an exception it catches moves on to the next file.
CliProcess ==
    /\ driver = "cli" /\ mainPc = "loop"
    /\ \E outcome \in PvfOutcomes :
          /\ attempts' = [attempts EXCEPT ![cursor] = @ + 1]
          /\ disk' = [disk EXCEPT ![cursor] = DiskAfter(@, outcome)]
          /\ result' = [result EXCEPT ![cursor] =
                           IF outcome = "returned" THEN "success"
                           ELSE IF ExceptionCaught(outcome) THEN "error" ELSE "raised"]
          /\ IF outcome # "returned" /\ ~ExceptionCaught(outcome)
             THEN mainPc' = "done" /\ summary' = "aborted" /\ UNCHANGED cursor
             ELSE IF cursor = MaxFiles
                  THEN mainPc' = "done" /\ summary' = "complete" /\ UNCHANGED cursor
                  ELSE cursor' = cursor + 1 /\ UNCHANGED <<mainPc, summary>>
    /\ task' = [task EXCEPT ![cursor] = "finished"]
    /\ UNCHANGED <<driver, threads, disk0, collected, successful, failed, is_processing,
                   executor, stop, atStop, detVars, pvfVars,
                   otherVars>>

\* stop_processing, first statement: self.is_processing = False.
StopFlag ==
    /\ driver = "gui" /\ stop = "no" /\ mainPc # "done"
    /\ is_processing' = FALSE
    /\ stop' = "flagged"
    /\ atStop' = [task |-> task, disk |-> disk]
    /\ UNCHANGED <<driver, threads, disk, disk0, mainPc, summary, task, result, collected,
                   attempts, successful, failed, cursor, executor, detVars, pvfVars,
                   otherVars>>

\* stop_processing, second statement:
\* if self.executor: self.executor.shutdown(wait=False, cancel_futures=True)
StopShutdown ==
    /\ driver = "gui" /\ stop = "flagged"
    /\ stop' = "done"
    /\ IF executor = "none"
       THEN UNCHANGED <<executor, task>>
       ELSE /\ executor' = "shutdown"
            /\ task' = [f \in Files |-> IF task[f] = "pending" THEN "cancelled" ELSE task[f]]
    /\ UNCHANGED <<driver, threads, disk, disk0, mainPc, summary, result, collected,
                   attempts, successful, failed, cursor, is_processing, atStop,
                   detVars, pvfVars,
                   otherVars>>

----------------------------------------------------------------------------
(* Output paths of a multi-worker batch run (process_all_seasons and the   *)
(* GUI).  A path is the directory it lies in, relative to the source or     *)
(* destination folder, and a file name kept as its "."-separated parts.     *)

\* Relative directories and file names the model discovers; every name
\* ends in one of video_extensions.
SeasonDirs == {"Season 1", "Season 2"}

VideoNames == {<<"e01", "mkv">>, <<"e01", "mp4">>, <<"e02", "mkv">>}

VideoPaths == [root : {"source"}, dir : SeasonDirs, name : VideoNames]

\* Path.stem and Path.suffix: the name without, and only, its last part.
Stem(name) == SubSeq(name, 1, Len(name) - 1)

Suffix(name) == name[Len(name)]

\* dest_dir / rel_path.parent / f"{video_file.stem}.intro_tamed{video_file.suffix}"
OutputFile(video_file) ==
    [root |-> "dest", dir |-> video_file.dir,
     name |-> Stem(video_file.name) \o <<"intro_tamed", Suffix(video_file.name)>>]

\* output_file.with_suffix(".json"): the last part replaced.
ReportPath(output_file) == [output_file EXCEPT !.name = Stem(@) \o <<"json">>]

\* The files of one run: rglob over the source folder.
PathsInit ==
    /\ video_files \in {V \in SUBSET VideoPaths : Cardinality(V) \in 1..MaxFiles}
    /\ written = {}

\* The worker of video_file calls process_video_file with report_json=True:
\* the render writes output_file, ProcessingReport.save writes the report.
WorkerWrites(video_file) ==
    /\ video_file \in video_files
    /\ \A w \in written : w.by # video_file
    /\ written' = written \cup
          {[by |-> video_file, path |-> OutputFile(video_file)],
           [by |-> video_file, path |-> ReportPath(OutputFile(video_file))]}
    /\ UNCHANGED <<video_files, detVars, pvfVars, batchVars, heurVars, renderVars, lateVars>>

----------------------------------------------------------------------------
(* The render path: the gain process_video_file selects, the RenderConfig   *)
(* it builds, and the volume expressions given to ffmpeg.  Times are        *)
(* milliseconds; a multiplier is an exact fraction [n, d] with d > 0.       *)

Frac(n, d) == [n |-> n, d |-> d]

RECURSIVE Gcd(_, _)
Gcd(a, b) == IF b = 0 THEN a ELSE Gcd(b, a % b)

\* a - b, over the least common denominator
FracSub(a, b) ==
    LET l == (a.d \div Gcd(a.d, b.d)) * b.d
    IN  Frac(a.n * (l \div a.d) - b.n * (l \div b.d), l)

FracLe(a, b) == FracSub(a, b).n <= 0

FracEq(a, b) == FracSub(a, b).n = 0

FracMin(a, b) == IF FracLe(a, b) THEN a ELSE b

\* gain_multiplier = 10 ** (gain_db / 20.0), exact for the multiples of 20;
\* for the built-in default of -9 dB, 0.35481 (the float is 0.354813...).
Multiplier(gain_db) ==
    CASE gain_db = -40 -> Frac(1, 100)
      [] gain_db = -20 -> Frac(1, 10)
      [] gain_db = -9  -> Frac(35481, 100000)
      [] gain_db = 0   -> Frac(1, 1)
      [] gain_db = 20  -> Frac(10, 1)

\* compute_gain_from_target_lufs
compute_gain_from_target_lufs(current_lufs, target_lufs) == target_lufs - current_lufs

\* The gain process_video_file settles on.  An option not given is <<>>,
\* one given is <<value>>; measured is what measure_integrated_loudness
\* returned for the intro.
SelectGain(r) ==
    IF r.target_intro_lufs # <<>>
    THEN compute_gain_from_target_lufs(r.measured, r.target_intro_lufs[1])
    ELSE IF r.duck_db # <<>> THEN r.duck_db[1]
    ELSE IF r.default_duck_db # <<>> THEN r.default_duck_db[1]
    ELSE -9

\* The fields RenderConfig declares.
RenderConfigFields ==
    {"intro_start", "intro_end", "gain_db", "fade_ms", "audio_stream_index", "all_audio_tracks"}

\* RenderConfig(**kwargs): a pydantic BaseModel keeps the declared fields
\* and ignores every other keyword.
RenderConfig(kwargs) == [f \in (DOMAIN kwargs) \cap RenderConfigFields |-> kwargs[f]]

\* The keywords process_video_file passes to RenderConfig.
RenderKeywords(r) ==
    [intro_start        |-> r.intro.start,
     intro_end          |-> r.intro.end,
     outro_start        |-> IF r.outro # <<>> THEN <<r.outro[1].start>> ELSE <<>>,
     outro_end          |-> IF r.outro # <<>> THEN <<r.outro[1].end>> ELSE <<>>,
     gain_db            |-> SelectGain(r),
     fade_ms            |-> r.fade_ms,
     audio_stream_index |-> 0,
     all_audio_tracks   |-> FALSE]

\* A fade-in that would end a whole fade too late; the code's follows.
LateFadeInEnd(config) == config.intro_start + 2 * config.fade_ms

\* fade_in_end = config.intro_start + fade_seconds
FadeInEnd(config) == config.intro_start + config.fade_ms

\* fade_out_start = config.intro_end - fade_seconds
FadeOutStart(config) == config.intro_end - config.fade_ms

\* 1+(gain_multiplier-1)*((t-intro_start)/fade_seconds)
RampDown(config, t) ==
    LET g == Multiplier(config.gain_db)
    IN  Frac(g.d * config.fade_ms + (g.n - g.d) * (t - config.intro_start),
             g.d * config.fade_ms)

\* gain_multiplier+(1-gain_multiplier)*((t-fade_out_start)/fade_seconds)
RampUp(config, t) ==
    LET g == Multiplier(config.gain_db)
    IN  Frac(g.n * config.fade_ms + (g.d - g.n) * (t - FadeOutStart(config)),
             g.d * config.fade_ms)

\* render_video's volume_expr at time t: a chain of if(lt(t, ...), ..., ...).
VolumeExpr(config, t) ==
    IF t < config.intro_start THEN Frac(1, 1)
    ELSE IF t < FadeInEnd(config) THEN RampDown(config, t)
    ELSE IF t < FadeOutStart(config) THEN Multiplier(config.gain_db)
    ELSE IF t < config.intro_end THEN RampUp(config, t)
    ELSE Frac(1, 1)

\* build_audio_filtergraph's expression at time t: between() is inclusive.
FiltergraphExpr(config, t) ==
    IF config.intro_start <= t /\ t <= config.intro_end
    THEN IF t < FadeInEnd(config) THEN RampDown(config, t)
         ELSE IF t > FadeOutStart(config) THEN RampUp(config, t)
         ELSE Multiplier(config.gain_db)
    ELSE Frac(1, 1)

\* The times at which the model evaluates a curve.
Times == 0..MaxTime

\* Segments (start, end in ms) and options the model draws from.  Starts,
\* lengths and fades are even, so that every breakpoint of a curve is an
\* even time and the odd times lie inside its pieces.
Segment(start, end) == [start |-> start, end |-> end]

IntroSegments == {Segment(s, s + len) : s \in {2, 4}, len \in {2, 4, 8, 10}}

RenderInputs ==
    [intro             : IntroSegments,
     outro             : {<<>>, <<Segment(18, 22)>>},
     fade_ms           : {0, 2, 4, 6},
     target_intro_lufs : {<<>>, <<-20>>},
     measured          : {-40, -20, 0},
     duck_db           : {<<>>, <<-20>>, <<20>>},
     default_duck_db   : {<<>>, <<-40>>}]

RenderInit == renderIn \in RenderInputs /\ render_config = None

\* render_config = RenderConfig(...)
BuildRenderConfig ==
    /\ render_config = None
    /\ render_config' = RenderConfig(RenderKeywords(renderIn))
    /\ UNCHANGED <<renderIn, detVars, pvfVars, batchVars, heurVars, pathVars, lateVars>>

----------------------------------------------------------------------------
(* HeuristicDetector.detect on its own. *)

\* The loudness, in LUFS, a window can measure.
Loudness == {-25, -22, -18}

\* Detector configurations whose search window yields 0..MaxWindows
\* measurements, each with every sequence of loudnesses for them.
HeurInputs ==
    {[config |-> h, L |-> L] :
        h \in [search_window_seconds : {WindowSize + HopSize * n : n \in 0..MaxWindows},
               min_intro_seconds     : {0, 15},
               max_intro_seconds     : {6, 90},
               loudness_threshold_db : {3}],
        L \in SeqsOf(Loudness, 0, MaxWindows)}

\* No detect call has been made.
HeurNotCalled == [called |-> FALSE, returned |-> None]

HeurInit ==
    /\ hdet \in {x \in HeurInputs : Len(x.L) = WindowCount(x.config)}
    /\ hdetResult = HeurNotCalled

\* heuristic_detector.detect(...): one loudness measurement per window,
\* then the scan for the rise and the drop.
HeuristicCall ==
    /\ ~hdetResult.called
    /\ hdetResult' = [called |-> TRUE, returned |-> HeuristicDetect(hdet.config, hdet.L)]
    /\ UNCHANGED <<hdet, detVars, pvfVars, batchVars, renderVars, pathVars, lateVars>>

----------------------------------------------------------------------------
(* A stored fingerprint: create_fingerprint_from_reference saves it, a      *)
(* later FingerprintDetector loads it and runs detect.                      *)

\* No detect call has been made by the loaded detector.
StoredIdle ==
    /\ saved = None
    /\ saved_sample_rate = None
    /\ ldet = None
    /\ ldetResult = NotCalled
    /\ lcall = None

StoredInit == StoredIdle

\* create_fingerprint_from_reference(..., sample_rate): the reference audio
\* is extracted at sample_rate, and _save_fingerprint writes the matrix
\* alone: np.savez_compressed(path, fingerprint=fingerprint).
CreateFingerprint(reference_audio, sample_rate) ==
    /\ saved = None
    /\ saved' = ComputeFingerprint(reference_audio)
    /\ saved_sample_rate' = sample_rate
    /\ UNCHANGED <<ldet, ldetResult, lcall, detVars, pvfVars, batchVars, heurVars, renderVars, pathVars, simVars, streamVars, measureVars, restartVars>>

\* FingerprintDetector(reference_fingerprint_path=..., sample_rate=...,
\* similarity_threshold=...): _load_fingerprint returns data["fingerprint"].
ConstructFromFile(sample_rate, similarity_threshold) ==
    /\ saved # None
    /\ ldet = None
    /\ ldet' = [reference_fingerprint |-> saved,
                sample_rate           |-> sample_rate,
                similarity_threshold  |-> similarity_threshold]
    /\ UNCHANGED <<saved, saved_sample_rate, ldetResult, lcall, detVars, pvfVars, batchVars,
                   heurVars, renderVars, pathVars, simVars, streamVars, measureVars, restartVars>>

\* detector.detect(video_path, ...): the search audio is extracted at
\* self.sample_rate and scanned against self.reference_fingerprint.
LoadedDetect(search_audio, search_start, padding_ms) ==
    /\ ldet # None
    /\ ~ldetResult.called
    /\ lcall' = [search_audio |-> search_audio, search_start |-> search_start,
                 padding_ms |-> padding_ms]
    /\ ldetResult' = DetectFrom([sample_rate          |-> ldet.sample_rate,
                                 similarity_threshold |-> ldet.similarity_threshold,
                                 search_audio         |-> search_audio,
                                 padding_ms           |-> padding_ms,
                                 search_start         |-> search_start],
                                ldet.reference_fingerprint)
    /\ UNCHANGED <<saved, saved_sample_rate, ldet, detVars, pvfVars, batchVars,
                   heurVars, renderVars, pathVars, simVars, streamVars, measureVars, restartVars>>

----------------------------------------------------------------------------
(* _compute_similarity on its own, on two feature matrices of the same      *)
(* number of rows.                                                          *)

\* The matrices of two rows (as ComputeFingerprint builds them) and
\* 1..MaxFrames frames, over two feature values.
Matrices == UNION {[1..2 -> [1..n -> {0, 1}]] : n \in 1..MaxFrames}

\* The (row, frame) of the element flatten() puts at position k (1-based):
\* row-major order, each row Frames(fp) long.
FlatCoord(fp, k) == <<((k - 1) \div Frames(fp)) + 1, ((k - 1) % Frames(fp)) + 1>>

\* The elements np.dot multiplies with each other: position k of ref_flat
\* with position k of query_flat, for k up to min_len.
Paired(ref_fp, query_fp) ==
    LET min_len == Min(Len(Flatten(ref_fp)), Len(Flatten(query_fp)))
    IN  {<<FlatCoord(ref_fp, k), FlatCoord(query_fp, k)>> : k \in 1..min_len}

SimIdle == simIn = None /\ simOut = None

SimInit == simIn \in [ref_fp : Matrices, query_fp : Matrices] /\ simOut = None

\* self._compute_similarity(ref_fp, query_fp)
SimilarityCall ==
    /\ simOut = None
    /\ simOut' = [similarity |-> ComputeSimilarity(simIn.ref_fp, simIn.query_fp),
                  paired     |-> Paired(simIn.ref_fp, simIn.query_fp)]
    /\ UNCHANGED <<simIn, detVars, pvfVars, batchVars, heurVars, renderVars, pathVars,
                   storedVars, streamVars, measureVars, restartVars>>

----------------------------------------------------------------------------
(* The audio stream each collaborator of process_video_file addresses.  A   *)
(* stream is named by its index in the file, from 0; an ffmpeg -map that     *)
(* matches no stream selects the empty set (and the tool fails).            *)

\* The stream layouts of an input: 1..MaxStreams streams, each of a type.
Layouts == SeqsOf({"video", "audio", "subtitle"}, 1, MaxStreams)

\* media_info.audio_streams: the indices of the audio streams, in file order.
RECURSIVE AudioStreams(_, _)
AudioStreams(layout, i) ==
    IF i >= Len(layout) THEN <<>>
    ELSE (IF layout[i + 1] = "audio" THEN <<i>> ELSE <<>>) \o AudioStreams(layout, i + 1)

\* An int held by a variable that can also hold None.
Index(i) == [kind |-> "int", index |-> i]

\* The streams a -map option selected.
Selected(S) == [kind |-> "map", streams |-> S]

\* get_default_audio_stream_index: media_info.audio_streams[0].index, or
\* ValueError when the file has no audio stream.
get_default_audio_stream_index(layout) ==
    IF AudioStreams(layout, 0) = <<>> THEN Raised ELSE Index(AudioStreams(layout, 0)[1])

\* -map 0:{index}: the stream with that index in the file
AbsoluteMap(layout, index) == IF index < Len(layout) THEN {index} ELSE {}

\* -map 0:a:{index}: the audio stream of that rank among the audio streams
AudioMap(layout, index) ==
    IF index < Len(AudioStreams(layout, 0)) THEN {AudioStreams(layout, 0)[index + 1]} ELSE {}

\* -map 0:a: every audio stream
AllAudioMap(layout) == Range(AudioStreams(layout, 0))

\* The collaborators, in the order process_video_file reaches them.
StreamStage ==
    [idle |-> 0, probe |-> 1, extract_audio_segment |-> 2,
     _measure_short_term_loudness |-> 3, measure_integrated_loudness |-> 4,
     render_video |-> 5, failed |-> 6]

\* No collaborator has been given a stream yet.
NoneAddressed ==
    [extract_audio_segment |-> None, _measure_short_term_loudness |-> None,
     measure_integrated_loudness |-> None, render_video |-> None]

StreamIdle ==
    /\ streams = <<>>
    /\ audio_stream_index = None
    /\ addressed = NoneAddressed
    /\ streamPc = "idle"

StreamInit ==
    /\ streams \in Layouts
    /\ audio_stream_index = None
    /\ addressed = NoneAddressed
    /\ streamPc = "idle"

\* audio_stream_index = get_default_audio_stream_index(media_info); an
\* exception ends the call with typer.Exit(1).
StreamProbe ==
    /\ streamPc = "idle"
    /\ audio_stream_index' = get_default_audio_stream_index(streams)
    /\ streamPc' = IF get_default_audio_stream_index(streams) = Raised THEN "failed" ELSE "probe"
    /\ UNCHANGED <<streams, addressed, detVars, pvfVars, batchVars, heurVars, renderVars,
                   pathVars, storedVars, simVars, measureVars, restartVars>>

\* A later collaborator is invoked with audio_stream_index and resolves it
\* to the streams selected (fingerprint and heuristic detection and the
\* loudness measurement do not all run in every call).
StreamCall(collaborator, selected) ==
    /\ streamPc \notin {"idle", "failed"}
    /\ StreamStage[streamPc] < StreamStage[collaborator]
    /\ addressed' = [addressed EXCEPT ![collaborator] = Selected(selected)]
    /\ streamPc' = collaborator
    /\ UNCHANGED <<streams, audio_stream_index, detVars, pvfVars, batchVars, heurVars,
                   renderVars, pathVars, storedVars, simVars, measureVars, restartVars>>

\* FingerprintDetector.detect -> extract_audio_segment: -map 0:{index}
StreamExtract ==
    StreamCall("extract_audio_segment", AbsoluteMap(streams, audio_stream_index.index))

\* HeuristicDetector.detect -> _measure_short_term_loudness: -map 0:a:{index}
StreamShortTerm ==
    StreamCall("_measure_short_term_loudness", AudioMap(streams, audio_stream_index.index))

\* measure_integrated_loudness: -map 0:{index}
StreamIntegrated ==
    StreamCall("measure_integrated_loudness", AbsoluteMap(streams, audio_stream_index.index))

\* render_video: -map 0:a with all_audio_tracks, -map 0:{index} without
StreamRender(all_audio_tracks) ==
    StreamCall("render_video",
               IF all_audio_tracks THEN AllAudioMap(streams)
               ELSE AbsoluteMap(streams, audio_stream_index.index))

----------------------------------------------------------------------------
(* HeuristicDetector.detect with its loudness collaborator: what ffmpeg     *)
(* yields for each window, and what _measure_short_term_loudness makes of   *)
(* it.                                                                      *)

\* return -20.0, when no "I:" value could be parsed
DefaultLoudness == -20

\* ffmpeg printed a line "I: <value> LUFS" with a number.
Measured(value) == [kind |-> "I", value |-> value]

\* ffmpeg failed and printed no "I:" line (subprocess.run without check).
Failed == [kind |-> "failed"]

\* ffmpeg printed an "I:" line whose value float() rejects.
Unparseable == [kind |-> "unparseable"]

\* What one ffmpeg run can yield.
FfmpegOutcomes == {Measured(-25), Measured(-18), Failed, Unparseable}

\* _measure_short_term_loudness: the parsed value, else the default.
MeasureShortTermLoudness(outcome) ==
    IF outcome.kind = "I" THEN outcome.value ELSE DefaultLoudness

\* No detect call has been made.
MeasureNotCalled == [called |-> FALSE, windows |-> <<>>, returned |-> None]

MeasureIdle == mdet = None /\ mdetResult = MeasureNotCalled

\* A detector with the default durations whose search window yields
\* 0..MaxWindows windows, with every outcome of ffmpeg for each.
MeasureInit ==
    /\ mdet \in
         {[config |-> h, outcomes |-> o] :
             h \in [search_window_seconds : {WindowSize + HopSize * n : n \in 0..MaxWindows},
                    min_intro_seconds     : {15},
                    max_intro_seconds     : {90},
                    loudness_threshold_db : {3}],
             o \in SeqsOf(FfmpegOutcomes, 0, MaxWindows)}
    /\ Len(mdet.outcomes) = WindowCount(mdet.config)
    /\ mdetResult = MeasureNotCalled

\* heuristic_detector.detect(...): windows.append((t, loudness)) for every
\* window, then the scan over the loudnesses collected.
MeasuredDetect ==
    /\ ~mdetResult.called
    /\ LET windows == [i \in 1..Len(mdet.outcomes) |->
                          MeasureShortTermLoudness(mdet.outcomes[i])]
       IN  mdetResult' = [called   |-> TRUE,
                          windows  |-> windows,
                          returned |-> HeuristicDetect(mdet.config, windows)]
    /\ UNCHANGED <<mdet, detVars, pvfVars, batchVars, heurVars, renderVars, pathVars,
                   storedVars, simVars, streamVars, restartVars>>

----------------------------------------------------------------------------
(* The GUI restarted: Start, Stop and Start again on one IntroTamerGUI.     *)
(* Each Start spawns a process_videos thread (a run); the threads share     *)
(* self.is_processing and self.executor.  An executor is named by the run   *)
(* that created it, 0 is None.  A worker's process_video_file call succeeds. *)

Runs == 1..2

RestartFiles == 1..MaxRestartFiles

\* A future no thread has created yet.
NoFuture == [state |-> "none", pool |-> 0, result |-> "none", collected |-> FALSE]

\* A process_videos thread that has not been spawned.
NoThread == [pc |-> "none", cursor |-> 1, remaining |-> {}, held |-> 0]

RestartIdle ==
    /\ gui = None
    /\ gthread = <<>>
    /\ gtask = <<>>
    /\ gpool = {}
    /\ gdisk = {}
    /\ interference = {}

\* IntroTamerGUI.__init__, with a folder some of whose outputs may exist.
RestartInit ==
    /\ gui = [is_processing |-> FALSE, executor |-> 0, start_enabled |-> TRUE,
              starts |-> 0, stops |-> 0, stopped_run |-> 0, overlap |-> FALSE]
    /\ gthread = [r \in Runs |-> NoThread]
    /\ gtask = [r \in Runs |-> [f \in RestartFiles |-> NoFuture]]
    /\ gpool = {}
    /\ gdisk \in SUBSET RestartFiles
    /\ interference = {}

\* The run's thread has not returned and has not died.
ThreadAlive(r) == gthread[r].pc \notin {"none", "done", "died"}

\* The futures of any run that sit in executor e, not yet done.
Unfinished(e) ==
    {<<r, f>> \in Runs \X RestartFiles :
        gtask[r][f].pool = e /\ gtask[r][f].state \in {"pending", "running"}}

\* The first run's thread acts on the second run's state.
Interferes(r, what) ==
    IF r = 1 /\ gui.starts = 2 /\ gthread[2].pc \notin {"done", "died"}
    THEN interference \cup {what}
    ELSE interference

\* start_processing: the flag is set, the buttons swap, the thread starts.
RestartStart ==
    /\ gui.start_enabled
    /\ gui.starts < 2
    /\ gui' = [gui EXCEPT !.is_processing = TRUE, !.start_enabled = FALSE,
                          !.starts = @ + 1,
                          !.overlap = ThreadAlive(1) \/ Unfinished(1) # {}]
    /\ gthread' = [gthread EXCEPT ![gui.starts + 1].pc = "filter"]
    /\ UNCHANGED <<gtask, gpool, gdisk, interference>>
    /\ UNCHANGED <<detVars, pvfVars, batchVars, heurVars, renderVars, pathVars,
                   storedVars, simVars, streamVars, measureVars>>

\* stop_processing: the flag is cleared, self.executor (if any) is shut
\* down with cancel_futures=True, the buttons swap back.
RestartStop ==
    /\ ~gui.start_enabled
    /\ gui.stops < 1
    /\ gui' = [gui EXCEPT !.is_processing = FALSE, !.start_enabled = TRUE,
                          !.stops = @ + 1, !.stopped_run = gui.starts]
    /\ gpool' = IF gui.executor # 0 THEN gpool \cup {gui.executor} ELSE gpool
    /\ gtask' = [r \in Runs |-> [f \in RestartFiles |->
                    IF gui.executor # 0 /\ gtask[r][f].pool = gui.executor
                         /\ gtask[r][f].state = "pending"
                    THEN [gtask[r][f] EXCEPT !.state = "cancelled"]
                    ELSE gtask[r][f]]]
    /\ UNCHANGED <<gthread, gdisk, interference>>
    /\ UNCHANGED <<detVars, pvfVars, batchVars, heurVars, renderVars, pathVars,
                   storedVars, simVars, streamVars, measureVars>>

\* process_videos: the files without an output remain; with none left the
\* thread clears the flag and returns.
ThreadFilter(r) ==
    /\ gthread[r].pc = "filter"
    /\ IF RestartFiles \ gdisk = {}
       THEN /\ gthread' = [gthread EXCEPT ![r].pc = "done"]
            /\ gui' = [gui EXCEPT !.is_processing = FALSE, !.start_enabled = TRUE]
            /\ interference' = Interferes(r, "is_processing reset")
       ELSE /\ gthread' = [gthread EXCEPT ![r].pc = "create",
                                          ![r].remaining = RestartFiles \ gdisk]
            /\ UNCHANGED <<gui, interference>>
    /\ UNCHANGED <<gtask, gpool, gdisk>>
    /\ UNCHANGED <<detVars, pvfVars, batchVars, heurVars, renderVars, pathVars,
                   storedVars, simVars, streamVars, measureVars>>

\* self.executor = ThreadPoolExecutor(max_workers=thread_count)
ThreadCreate(r) ==
    /\ gthread[r].pc = "create"
    /\ gui' = [gui EXCEPT !.executor = r]
    /\ gthread' = [gthread EXCEPT ![r].pc = "submit"]
    /\ UNCHANGED <<gtask, gpool, gdisk, interference>>
    /\ UNCHANGED <<detVars, pvfVars, batchVars, heurVars, renderVars, pathVars,
                   storedVars, simVars, streamVars, measureVars>>

\* The files the submit loop has still to visit.
ToSubmit(r) == {f \in gthread[r].remaining : f >= gthread[r].cursor}

\* One turn of the submit loop: break on a cleared flag, else
\* self.executor.submit(...), which raises when self.executor is None
\* (AttributeError) or shut down (RuntimeError) and ends the thread.
ThreadSubmit(r) ==
    /\ gthread[r].pc = "submit"
    /\ IF ToSubmit(r) = {} \/ ~gui.is_processing
       THEN /\ gthread' = [gthread EXCEPT ![r].pc = "collect"]
            /\ UNCHANGED gtask
       ELSE IF gui.executor = 0 \/ gui.executor \in gpool
       THEN /\ gthread' = [gthread EXCEPT ![r].pc = "died"]
            /\ UNCHANGED gtask
       ELSE LET f == CHOOSE x \in ToSubmit(r) : \A y \in ToSubmit(r) : x <= y
            IN  /\ gtask' = [gtask EXCEPT ![r][f] =
                                [NoFuture EXCEPT !.state = "pending", !.pool = gui.executor]]
                /\ gthread' = [gthread EXCEPT ![r].cursor = f + 1]
    /\ UNCHANGED <<gui, gpool, gdisk, interference>>
    /\ UNCHANGED <<detVars, pvfVars, batchVars, heurVars, renderVars, pathVars,
                   storedVars, simVars, streamVars, measureVars>>

\* A pool thread takes a pending future: process_single_file returns
\* "stopped" on a cleared flag and "skipped" on an existing output, else it
\* calls process_video_file.
RestartWorkerBegin(r, f) ==
    /\ gtask[r][f].state = "pending"
    /\ Cardinality({t \in Unfinished(gtask[r][f].pool) :
                       gtask[t[1]][t[2]].state = "running"}) < MaxThreads
    /\ gtask' = [gtask EXCEPT ![r][f] =
          IF ~gui.is_processing THEN [@ EXCEPT !.state = "finished", !.result = "stopped"]
          ELSE IF f \in gdisk THEN [@ EXCEPT !.state = "finished", !.result = "skipped"]
          ELSE [@ EXCEPT !.state = "running"]]
    /\ UNCHANGED <<gui, gthread, gpool, gdisk, interference>>
    /\ UNCHANGED <<detVars, pvfVars, batchVars, heurVars, renderVars, pathVars,
                   storedVars, simVars, streamVars, measureVars>>

\* process_video_file returns: the output is written, the result "success".
RestartWorkerEnd(r, f) ==
    /\ gtask[r][f].state = "running"
    /\ gtask' = [gtask EXCEPT ![r][f] = [@ EXCEPT !.state = "finished", !.result = "success"]]
    /\ gdisk' = gdisk \cup {f}
    /\ UNCHANGED <<gui, gthread, gpool, interference>>
    /\ UNCHANGED <<detVars, pvfVars, batchVars, heurVars, renderVars, pathVars,
                   storedVars, simVars, streamVars, measureVars>>

\* The thread's futures as_completed has still to hand out.
ToCollect(r) ==
    {f \in RestartFiles : gtask[r][f].state # "none" /\ ~gtask[r][f].collected}

\* One turn of the as_completed loop on a done future f: break on a cleared
\* flag; future.result() raises CancelledError for a cancelled future and
\* ends the thread; break on "stopped".
ThreadCollect(r, f) ==
    /\ gthread[r].pc = "collect"
    /\ f \in ToCollect(r)
    /\ gtask[r][f].state \in {"finished", "cancelled"}
    /\ IF ~gui.is_processing
       THEN /\ gthread' = [gthread EXCEPT ![r].pc = "shutdown"]
            /\ UNCHANGED gtask
       ELSE IF gtask[r][f].state = "cancelled"
       THEN /\ gthread' = [gthread EXCEPT ![r].pc = "died"]
            /\ UNCHANGED gtask
       ELSE IF gtask[r][f].result = "stopped"
       THEN /\ gthread' = [gthread EXCEPT ![r].pc = "shutdown"]
            /\ UNCHANGED gtask
       ELSE /\ gtask' = [gtask EXCEPT ![r][f].collected = TRUE]
            /\ UNCHANGED gthread
    /\ UNCHANGED <<gui, gpool, gdisk, interference>>
    /\ UNCHANGED <<detVars, pvfVars, batchVars, heurVars, renderVars, pathVars,
                   storedVars, simVars, streamVars, measureVars>>

\* as_completed is exhausted.
ThreadCollected(r) ==
    /\ gthread[r].pc = "collect"
    /\ ToCollect(r) = {}
    /\ gthread' = [gthread EXCEPT ![r].pc = "shutdown"]
    /\ UNCHANGED <<gui, gtask, gpool, gdisk, interference>>
    /\ UNCHANGED <<detVars, pvfVars, batchVars, heurVars, renderVars, pathVars,
                   storedVars, simVars, streamVars, measureVars>>

\* if self.executor: self.executor.shutdown(wait=True) -- the call begins:
\* the executor takes no more submissions.
ThreadShutdown(r) ==
    /\ gthread[r].pc = "shutdown"
    /\ IF gui.executor = 0
       THEN /\ gthread' = [gthread EXCEPT ![r].pc = "finish"]
            /\ UNCHANGED <<gpool, interference>>
       ELSE /\ gthread' = [gthread EXCEPT ![r].pc = "wait", ![r].held = gui.executor]
            /\ gpool' = gpool \cup {gui.executor}
            /\ interference' = IF gui.executor = 2 THEN Interferes(r, "executor shut down")
                                ELSE interference
    /\ UNCHANGED <<gui, gtask, gdisk>>
    /\ UNCHANGED <<detVars, pvfVars, batchVars, heurVars, renderVars, pathVars,
                   storedVars, simVars, streamVars, measureVars>>

\* shutdown(wait=True) returns once the executor's futures are done; then
\* self.executor = None.
ThreadClear(r) ==
    /\ gthread[r].pc = "wait"
    /\ Unfinished(gthread[r].held) = {}
    /\ gui' = [gui EXCEPT !.executor = 0]
    /\ interference' = IF gui.executor = 2 THEN Interferes(r, "executor cleared")
                        ELSE interference
    /\ gthread' = [gthread EXCEPT ![r].pc = "finish"]
    /\ UNCHANGED <<gtask, gpool, gdisk>>
    /\ UNCHANGED <<detVars, pvfVars, batchVars, heurVars, renderVars, pathVars,
                   storedVars, simVars, streamVars, measureVars>>

\* self.is_processing = False; the buttons swap back; the summary is shown.
ThreadFinish(r) ==
    /\ gthread[r].pc = "finish"
    /\ gui' = [gui EXCEPT !.is_processing = FALSE, !.start_enabled = TRUE]
    /\ interference' = Interferes(r, "is_processing reset")
    /\ gthread' = [gthread EXCEPT ![r].pc = "done"]
    /\ UNCHANGED <<gtask, gpool, gdisk>>
    /\ UNCHANGED <<detVars, pvfVars, batchVars, heurVars, renderVars, pathVars,
                   storedVars, simVars, streamVars, measureVars>>

----------------------------------------------------------------------------
(* Specifications *)

\* No process_video_file call is under way.
PvfIdle ==
    /\ args = None
    /\ pc = "idle"
    /\ intro_boundaries = None
    /\ fpAttempt = "pending"
    /\ calls = <<>>
    /\ outputFile = "absent"
    /\ reportFile = FALSE
    /\ exit = "running"
    /\ outro_boundaries = None
    /\ outroAttempt = "pending"

\* No detector under test.
DetectIdle == det = None /\ detResult = NotCalled

\* No batch driver runs.
BatchIdle ==
    /\ driver = "none"
    /\ threads = 0
    /\ disk = <<>>
    /\ disk0 = <<>>
    /\ mainPc = "idle"
    /\ summary = "none"
    /\ task = <<>>
    /\ result = <<>>
    /\ collected = {}
    /\ attempts = <<>>
    /\ successful = 0
    /\ failed = 0
    /\ cursor = 0
    /\ is_processing = FALSE
    /\ executor = "none"
    /\ stop = "no"
    /\ atStop = None

\* No HeuristicDetector under test.
HeurIdle == hdet = None /\ hdetResult = HeurNotCalled

\* No render path under test.
RenderIdle == renderIn = None /\ render_config = None

\* No output paths under test.
PathsIdle == video_files = {} /\ written = {}

\* None of the components modelled on their own.
LateIdle == StoredIdle /\ SimIdle /\ StreamIdle /\ MeasureIdle /\ RestartIdle

\* Nothing but the component under test.
OthersIdle == HeurIdle /\ RenderIdle /\ PathsIdle /\ LateIdle

\* One FingerprintDetector, one detect call.
DetectInit ==
    /\ det \in DetInputs
    /\ detResult = NotCalled
    /\ PvfIdle
    /\ BatchIdle
    /\ OthersIdle

DetectNext == DetectCall

SpecDetect == DetectInit /\ [][DetectNext]_vars

\* One call of process_video_file.
FileInit == PvfInit /\ DetectIdle /\ BatchIdle /\ OthersIdle

FileNext ==
    \/ PvfOpen
    \/ PvfManual
    \/ PvfFingerprint
    \/ PvfHeuristic
    \/ PvfCheck
    \/ PvfGain
    \/ PvfOutro
    \/ PvfConfig
    \/ PvfRenderBegin
    \/ PvfRenderEnd
    \/ PvfReport

SpecFile == FileInit /\ [][FileNext]_vars

\* One run of one batch driver; in the GUI, Stop may be pressed once.
BatchStart == BatchInit /\ DetectIdle /\ PvfIdle /\ OthersIdle

\* The steps of the driver and its workers.
BatchProgress ==
    \/ SeasonsFilter
    \/ GuiFilter
    \/ GuiSubmitCheck
    \/ GuiSubmit
    \/ \E f \in Files : WorkerStart(f)
    \/ \E f \in Files : GuiWorkerCheck(f)
    \/ \E f \in Files : GuiWorkerCall(f)
    \/ \E f \in Files : WorkerFinish(f)
    \/ SeasonsCollect
    \/ GuiCollect
    \/ GuiShutdown
    \/ CliProcess

BatchNext ==
    \/ BatchProgress
    \/ StopFlag
    \/ StopShutdown

SpecBatch == BatchStart /\ [][BatchNext]_vars

\* The output paths of one batch run with its workers.
PathsStart ==
    PathsInit /\ DetectIdle /\ PvfIdle /\ BatchIdle /\ HeurIdle /\ RenderIdle /\ LateIdle

PathsNext == \E video_file \in VideoPaths : WorkerWrites(video_file)

SpecPaths == PathsStart /\ [][PathsNext]_vars

\* The render path of one file.
RenderStart ==
    RenderInit /\ DetectIdle /\ PvfIdle /\ BatchIdle /\ HeurIdle /\ PathsIdle /\ LateIdle

RenderNext == BuildRenderConfig

SpecRender == RenderStart /\ [][RenderNext]_vars

\* One HeuristicDetector, one detect call.
HeurStart ==
    HeurInit /\ DetectIdle /\ PvfIdle /\ BatchIdle /\ RenderIdle /\ PathsIdle /\ LateIdle

HeurNext == HeuristicCall

SpecHeuristic == HeurStart /\ [][HeurNext]_vars

\* A fingerprint file is created, then a detector is built on it and run.
StoredStart ==
    /\ StoredInit
    /\ DetectIdle /\ PvfIdle /\ BatchIdle /\ HeurIdle /\ RenderIdle /\ PathsIdle
    /\ SimIdle /\ StreamIdle /\ MeasureIdle /\ RestartIdle

StoredNext ==
    \/ \E reference_audio \in SeqsOf(BlockVals, 1, MaxRefBlocks), sample_rate \in SampleRates :
          CreateFingerprint(reference_audio, sample_rate)
    \/ \E sample_rate \in SampleRates, similarity_threshold \in Thresholds :
          ConstructFromFile(sample_rate, similarity_threshold)
    \/ \E search_audio \in SeqsOf(BlockVals \ {<<0, 0>>}, MaxRefBlocks + 1, MaxRefBlocks + 2),
          search_start \in SearchStarts, padding_ms \in Paddings :
          LoadedDetect(search_audio, search_start, padding_ms)

SpecStored == StoredStart /\ [][StoredNext]_vars

\* One _compute_similarity call.
SimStart ==
    /\ SimInit
    /\ DetectIdle /\ PvfIdle /\ BatchIdle /\ HeurIdle /\ RenderIdle /\ PathsIdle
    /\ StoredIdle /\ StreamIdle /\ MeasureIdle /\ RestartIdle

SimNext == SimilarityCall

SpecSimilarity == SimStart /\ [][SimNext]_vars

\* One input file, its probe, and the collaborators given its stream index.
StreamStart ==
    /\ StreamInit
    /\ DetectIdle /\ PvfIdle /\ BatchIdle /\ HeurIdle /\ RenderIdle /\ PathsIdle
    /\ StoredIdle /\ SimIdle /\ MeasureIdle /\ RestartIdle

StreamNext ==
    \/ StreamProbe
    \/ StreamExtract
    \/ StreamShortTerm
    \/ StreamIntegrated
    \/ \E all_audio_tracks \in BOOLEAN : StreamRender(all_audio_tracks)

SpecStreams == StreamStart /\ [][StreamNext]_vars

\* One HeuristicDetector, one detect call, with ffmpeg's outcomes.
MeasureStart ==
    /\ MeasureInit
    /\ DetectIdle /\ PvfIdle /\ BatchIdle /\ HeurIdle /\ RenderIdle /\ PathsIdle
    /\ StoredIdle /\ SimIdle /\ StreamIdle /\ RestartIdle

MeasureNext == MeasuredDetect

SpecMeasure == MeasureStart /\ [][MeasureNext]_vars

\* One IntroTamerGUI: Start, at most one Stop, at most one more Start.
RestartBegin ==
    /\ RestartInit
    /\ DetectIdle /\ PvfIdle /\ BatchIdle /\ HeurIdle /\ RenderIdle /\ PathsIdle
    /\ StoredIdle /\ SimIdle /\ StreamIdle /\ MeasureIdle

RestartNext ==
    \/ RestartStart
    \/ RestartStop
    \/ \E r \in Runs : ThreadFilter(r)
    \/ \E r \in Runs : ThreadCreate(r)
    \/ \E r \in Runs : ThreadSubmit(r)
    \/ \E r \in Runs, f \in RestartFiles : RestartWorkerBegin(r, f)
    \/ \E r \in Runs, f \in RestartFiles : RestartWorkerEnd(r, f)
    \/ \E r \in Runs, f \in RestartFiles : ThreadCollect(r, f)
    \/ \E r \in Runs : ThreadCollected(r)
    \/ \E r \in Runs : ThreadShutdown(r)
    \/ \E r \in Runs : ThreadClear(r)
    \/ \E r \in Runs : ThreadFinish(r)

SpecRestart == RestartBegin /\ [][RestartNext]_vars

----------------------------------------------------------------------------
(* Claims about FingerprintDetector.detect, under SpecDetect. *)

\* The reference fingerprint of the configured detector.
RefFp == ComputeFingerprint(det.reference_audio)

\* len(search_audio) < window_samples
ShortBuffer == SampleLen(det.search_audio) < WindowSamples(RefFp)

\* C1: detect on a search buffer shorter than the reference window returns
\* not-found and scores no window, whatever the threshold and the padding.
C1_ShortBufferNotFound ==
    (detResult.called /\ ShortBuffer)
        => (detResult.returned = None /\ detResult.scored = {})

\* Every scored window is below the threshold (the maximum is below it).
AllScoresBelow(threshold) ==
    \A i \in 1..Len(detResult.scores) : ScoreLt(detResult.scores[i], threshold)

\* C2: detect returns not-found exactly when the maximum score over the
\* scored windows is below the threshold, and a returned confidence is the
\* score of a scored window and at least the threshold.
C2_NotFoundIffBelowThreshold ==
    detResult.called =>
        /\ (detResult.returned = None) <=> AllScoresBelow(det.similarity_threshold)
        /\ detResult.returned # None =>
              /\ \E i \in 1..Len(detResult.scores) :
                     detResult.scores[i] = detResult.returned.confidence
              /\ ScoreLe(det.similarity_threshold, detResult.returned.confidence)

\* The search buffer holds the reference audio, block for block, from
\* sample offset o on.
CopyAt(o) ==
    LET b == o \div HopLength
    IN  /\ o % HopLength = 0
        /\ b + Len(det.reference_audio) <= Len(det.search_audio)
        /\ SubSeq(det.search_audio, b + 1, b + Len(det.reference_audio)) = det.reference_audio

\* The reference is not silent (its fingerprint has a non-zero norm).
NonSilentRef == \E i \in 1..Len(det.reference_audio) : det.reference_audio[i] # <<0, 0>>

\* The offsets range(...) can take in a buffer of the longest length.
HopOffsets ==
    {k * HopSamples(det.sample_rate) :
        k \in 0..((MaxSearchBlocks * HopLength) \div HopSamples(det.sample_rate))}

\* C3: an exact copy of a (non-silent) reference at a hop-multiple offset
\* whose window the scan reaches is reported as a match with confidence 1.0,
\* method "fingerprint" and a start within the padding of that offset.
C3_ExactCopyDetected ==
    \A o \in HopOffsets :
        (detResult.called /\ NonSilentRef /\ CopyAt(o) /\ o \in detResult.scored)
            => /\ detResult.returned # None
               /\ ScoreEq(detResult.returned.confidence, ScoreOne)
               /\ detResult.returned.method = "fingerprint"
               /\ detResult.returned.start \in
                     (SamplesToMs(o, det.sample_rate) - det.padding_ms)
                       .. (SamplesToMs(o, det.sample_rate) + det.padding_ms)

\* C27: every candidate window that fits in the search buffer is scored:
\* every offset k * hop with offset + windowSamples <= len(search buffer),
\* the window flush with the end of the buffer included.
C27_EveryFittingWindowScored ==
    detResult.called =>
        \A o \in HopOffsets :
            o + WindowSamples(RefFp) <= SampleLen(det.search_audio) => o \in detResult.scored

----------------------------------------------------------------------------
(* Claims about process_video_file, under SpecFile. *)


\* The detection phase of an automatic run is over.
DetectionOver == fpAttempt # "pending" /\ pc \notin {"fallback", "check"}

\* C4: every Boundaries value process_video_file holds, whether from the
\* fingerprint detector, the heuristic detector or the manual override, has
\* start >= 0, end > start, 0 <= confidence <= 1 and a known method.
C4_BoundariesWellFormed ==
    intro_boundaries # None =>
        /\ intro_boundaries.start >= 0
        /\ intro_boundaries.end > intro_boundaries.start
        /\ ScoreLe(ScoreZero, intro_boundaries.confidence)
        /\ ScoreLe(intro_boundaries.confidence, ScoreOne)
        /\ intro_boundaries.method \in {"manual", "fingerprint", "heuristic"}

\* C5: the heuristic detector is invoked if and only if the fingerprint
\* attempt produced no Boundaries (raised, not-found, not configured) and
\* fallback is allowed; it runs at most once, after the fingerprint attempt,
\* and never after the fingerprint detector returned Boundaries.
C5_FingerprintThenHeuristic ==
    /\ "heuristic" \in Range(calls) =>
          /\ ~ManualGiven(args)
          /\ fpAttempt \in {"raised", "none", "not_configured"}
          /\ args.allow_fallback
    /\ (pc # "fallback" /\ fpAttempt \in {"raised", "none", "not_configured"}
           /\ args.allow_fallback)
          => "heuristic" \in Range(calls)
    /\ \A i, j \in 1..Len(calls) :
          (calls[i] = "heuristic" /\ calls[j] \in {"fingerprint", "heuristic"} /\ i # j) => j < i

\* C5's case: fingerprint returned not-found, the heuristic then found the intro.
C5_Witness ==
    /\ calls = <<"probe", "fingerprint", "heuristic">>
    /\ fpAttempt = "none"
    /\ intro_boundaries # None
    /\ intro_boundaries.method = "heuristic"

\* C6: when no manual override is given and detection ends without
\* Boundaries, the call has ended in an error: no loudness was measured, no
\* outro searched, the renderer was never invoked, and neither an output
\* file nor a report was written.
C6_NoBoundariesHardStop ==
    (~ManualGiven(args) /\ DetectionOver /\ intro_boundaries = None) =>
        /\ exit = "exit1"
        /\ Range(calls) \cap {"measure", "outro", "render"} = {}
        /\ outputFile = "absent"
        /\ ~reportFile

\* C6's case: both strategies were tried and neither produced boundaries.
C6_Witness ==
    /\ calls = <<"probe", "fingerprint", "heuristic">>
    /\ intro_boundaries = None
    /\ pc = "done"
    /\ exit = "exit1"

\* C7: after a failed call in which the renderer ran, no file exists at the
\* output path.
C7_NoPartialOutput ==
    (exit = "exit1" /\ "render" \in Range(calls)) => outputFile = "absent"

\* C17: when outro detection calls the detector with search_from_end, the
\* call ends with Boundaries or not-found, never in an error.
C17_OutroSearchFromEnd ==
    ("outro" \in Range(calls) /\ outroAttempt # "raised")
        => outroAttempt \in {"none", "boundaries"}

----------------------------------------------------------------------------
(* Claims about the batch drivers, under SpecBatch. *)

\* The input's output artifact existed when the run started.
ExistedAtStart(f) == Exists(disk0[f])

\* C8: in every driver an input whose output existed at the start of the
\* run is never passed to process_video_file again, and where the driver
\* counts, it has been counted as successful by the time of the summary.
C8_ExistingOutputSkipped ==
    /\ \A f \in Files : ExistedAtStart(f) => attempts[f] = 0
    /\ (driver \in {"seasons", "gui"} /\ summary = "complete")
          => successful >= Cardinality({f \in Files : ExistedAtStart(f)})

\* The files the driver's resume filter lets through.
Skipped(f) == driver \in {"seasons", "gui"} /\ ExistedAtStart(f)

\* C9: a failing file never keeps the others from being attempted.  No
\* file is attempted twice; while Stop is not pressed the driver can
\* always take a step until it is done; and it is then done with its
\* completion message, every non-skipped file attempted exactly once and,
\* where the driver counts, successful + failed equal to the number of files.
C9_FailureIsolated ==
    /\ \A f \in Files : attempts[f] <= 1
    /\ (stop = "no" /\ mainPc # "done") => ENABLED BatchProgress
    /\ (stop = "no" /\ mainPc = "done") =>
          /\ summary \in {"complete", "all_processed"}
          /\ \A f \in Files : attempts[f] = IF Skipped(f) THEN 0 ELSE 1
          /\ (driver \in {"seasons", "gui"} /\ summary = "complete")
                => successful + failed = MaxFiles

\* C9's case: an earlier file failed, a later one was still processed, and
\* the driver reached its summary.
C9_Witness ==
    /\ mainPc = "done" /\ summary = "complete" /\ stop = "no"
    /\ \E f, g \in Files : f < g /\ result[f] = "error" /\ result[g] = "success"
    /\ driver = "seasons" => failed >= 1

\* When Stop was pressed, f's worker had not passed the stop-flag test
\* (f was not submitted, its future was pending, or its worker was about
\* to test the flag).
NotBegunAtStop(f) == atStop.task[f] \in {"none", "pending", "started"}

\* C10: once Stop is pressed in the GUI, a file whose processing had not
\* begun is never passed to process_video_file; a file in flight is not
\* cancelled, and has finished when process_videos prints its summary; an
\* output complete before the stop stays complete.
C10_StopHaltsDispatch ==
    stop # "no" =>
        \A f \in Files :
            /\ NotBegunAtStop(f) => attempts[f] = 0
            /\ ~NotBegunAtStop(f) => task[f] \in {"checked", "processing", "finished"}
            /\ (~NotBegunAtStop(f) /\ summary = "complete") => task[f] = "finished"
            /\ atStop.disk[f] = "complete" => disk[f] = "complete"

\* C10's case: Stop was pressed with one file done, one in flight and one
\* pending; the one in flight has finished and the pending one was cancelled.
C10_Witness ==
    /\ stop = "done"
    /\ \E f, g, h \in Files :
          /\ atStop.task[f] = "finished" /\ atStop.disk[f] = "complete"
          /\ atStop.task[g] = "processing" /\ task[g] = "finished"
          /\ atStop.task[h] = "pending" /\ task[h] = "cancelled"

----------------------------------------------------------------------------
(* Claims about the output paths, under SpecPaths. *)

\* C11: no path is written by more than one worker of a run: the output
\* paths and the report paths of distinct inputs are pairwise distinct.
C11_PathsExclusive ==
    \A w1, w2 \in written : w1.path = w2.path => w1.by = w2.by

----------------------------------------------------------------------------
(* Claims about the gain curve, under SpecRender. *)

\* The RenderConfig has been built.
Built == render_config # None

\* The target multiplier of the built configuration.
Target == Multiplier(render_config.gain_db)

\* The built configuration's curve of that name, at time t.
Curve(curve, t) ==
    IF curve = "volume_expr" THEN VolumeExpr(render_config, t)
    ELSE FiltergraphExpr(render_config, t)

\* A piecewise linear curve whose breakpoints are even times is continuous
\* exactly when it is linear across every interval [2k-2, 2k]: a jump at an
\* even time breaks the interval that ends or the one that starts there.
Continuous(curve) ==
    \A k \in 1..(MaxTime \div 2) :
        FracEq(FracSub(Curve(curve, 2 * k), Curve(curve, 2 * k - 1)),
               FracSub(Curve(curve, 2 * k - 1), Curve(curve, 2 * k - 2)))

\* Every value of the curve lies within [target multiplier, 1.0].
Bounded(curve) ==
    \A t \in Times : FracLe(Target, Curve(curve, t)) /\ FracLe(Curve(curve, t), Frac(1, 1))

\* C12: for gain_db <= 0 and any fade >= 0, also one longer than the
\* segment, the gain curve is exactly 1.0 at every t < start and t > end.
C12_UnityOutsideSegment ==
    (Built /\ render_config.gain_db <= 0) =>
        \A t \in Times :
            (t < render_config.intro_start \/ t > render_config.intro_end) =>
                /\ FracEq(VolumeExpr(render_config, t), Frac(1, 1))
                /\ FracEq(FiltergraphExpr(render_config, t), Frac(1, 1))

\* end - start >= 2*fade, fade > 0, gain_db <= 0
ValidSegment ==
    /\ render_config.intro_end - render_config.intro_start >= 2 * render_config.fade_ms
    /\ render_config.fade_ms > 0
    /\ render_config.gain_db <= 0

\* C13: on a valid segment render_video's curve is continuous at its four
\* breakpoints, equals the target multiplier on [start+fade, end-fade],
\* falls monotonically on the fade-in, rises monotonically on the fade-out,
\* and stays within [target multiplier, 1.0].
C13_CurveContinuousMonotone ==
    (Built /\ ValidSegment) =>
        /\ Continuous("volume_expr")
        /\ Bounded("volume_expr")
        /\ \A t \in Times :
              /\ (FadeInEnd(render_config) <= t /\ t <= FadeOutStart(render_config))
                    => FracEq(VolumeExpr(render_config, t), Target)
              /\ (render_config.intro_start <= t /\ t < FadeInEnd(render_config))
                    => FracLe(VolumeExpr(render_config, t + 1), VolumeExpr(render_config, t))
              /\ (FadeOutStart(render_config) <= t /\ t < render_config.intro_end)
                    => FracLe(VolumeExpr(render_config, t), VolumeExpr(render_config, t + 1))

\* C13's case: a valid segment ducked by 20 dB whose fade-in passes through
\* a value strictly between the target multiplier and 1.0.
C13_Witness ==
    /\ Built /\ ValidSegment
    /\ render_config.gain_db = -20
    /\ \E t \in Times :
          /\ render_config.intro_start < t /\ t < FadeInEnd(render_config)
          /\ ~FracLe(VolumeExpr(render_config, t), Target)
          /\ ~FracLe(Frac(1, 1), VolumeExpr(render_config, t))

\* C14: on a degenerate segment, 0 < end - start < 2*fade, the curve is
\* still continuous at every t and within [target multiplier, 1.0].
C14_DegenerateContinuous ==
    (/\ Built
     /\ render_config.gain_db <= 0
     /\ render_config.intro_end - render_config.intro_start < 2 * render_config.fade_ms)
        => /\ Continuous("volume_expr") /\ Bounded("volume_expr")
           /\ Continuous("filtergraph") /\ Bounded("filtergraph")

\* The curve of one segment alone, with the built configuration's gain
\* and fade.
SegmentCurve(segment, t) ==
    VolumeExpr([render_config EXCEPT !.intro_start = segment.start,
                                      !.intro_end = segment.end], t)

C16_NeverAmplifies ==
    Built => \A t \in Times : FracLe(VolumeExpr(render_config, t), Frac(1, 1))

----------------------------------------------------------------------------
(* Claims about HeuristicDetector.detect, under SpecHeuristic. *)

\* The indices i >= 1 (0-based; here 2..n) whose window is louder than the
\* one before it by at least the threshold.
Rises ==
    {i \in 2..Len(hdet.L) : hdet.L[i] - hdet.L[i - 1] >= hdet.config.loudness_threshold_db}

\* The least element of a non-empty set of numbers.
Least(S) == CHOOSE x \in S : \A y \in S : x <= y

\* C18: detect returns not-found exactly when fewer than two windows were
\* measured or no window rises over its predecessor by the threshold;
\* otherwise the reported start is the start time of the first such window.
C18_HeuristicStartAtFirstRise ==
    hdetResult.called =>
        /\ (hdetResult.returned = None) <=> (Len(hdet.L) < 2 \/ Rises = {})
        /\ hdetResult.returned # None =>
              hdetResult.returned.start = (Least(Rises) - 1) * HopSize * 1000

\* C18's case: the second window does not rise, a later one does, and
\* detect reports that later window's start.
C18_Witness ==
    /\ hdetResult.called
    /\ hdetResult.returned # None
    /\ Rises # {} /\ Least(Rises) > 2
    /\ hdetResult.returned.start = (Least(Rises) - 1) * HopSize * 1000

\* The windows after the start window that are quieter than it by at
\* least the threshold.
Drops ==
    {j \in (Least(Rises) + 1)..Len(hdet.L) :
        hdet.L[Least(Rises)] - hdet.L[j] >= hdet.config.loudness_threshold_db}

\* C19: when a later window drops by the threshold below the start
\* window, and the intro up to that window already has the minimum
\* duration, the reported end is the start time of the first such window.
C19_HeuristicEndAtFirstDrop ==
    (/\ hdetResult.called
     /\ Rises # {}
     /\ Drops # {}
     /\ (Least(Drops) - Least(Rises)) * HopSize >= hdet.config.min_intro_seconds)
        => hdetResult.returned.end = (Least(Drops) - 1) * HopSize * 1000

\* C20: every heuristic result has confidence 0.6 and method "heuristic",
\* and no fingerprint result (of a scan that scored a window) has a lower
\* confidence than that, whatever the threshold.
C20_HeuristicConfidenceLowest ==
    /\ (hdetResult.called /\ hdetResult.returned # None) =>
          /\ ScoreEq(hdetResult.returned.confidence, Score(1, 25))
          /\ hdetResult.returned.method = "heuristic"
    /\ (detResult.called /\ detResult.scored # {} /\ detResult.returned # None) =>
          ScoreLe(Score(1, 25), detResult.returned.confidence)

\* The start detect is to report, in seconds: the first rise's window.
RiseStart == (Least(Rises) - 1) * HopSize

\* searchSpan = min(search_window_seconds, 300)
SearchSpan == Min(hdet.config.search_window_seconds, SearchCap)

\* The end the scan arrives at, in seconds, before the minimum duration is
\* enforced.
ScannedEnd ==
    IF Drops = {}
    THEN Min(RiseStart + hdet.config.max_intro_seconds, SearchSpan)
    ELSE (Least(Drops) - 1) * HopSize + WindowSize

\* C25: when a start window is found and no later window drops by the
\* threshold below it, the end before the minimum-duration extension is
\* min(start + maxIntroSeconds, searchSpan): the reported end is that value,
\* or start + minIntroSeconds where that value lies too close.
C25_DefaultEndCapped ==
    (hdetResult.called /\ Rises # {} /\ Drops = {}) =>
        LET default == Min(RiseStart + hdet.config.max_intro_seconds, SearchSpan)
        IN  hdetResult.returned.end =
                1000 * (IF default - RiseStart < hdet.config.min_intro_seconds
                        THEN RiseStart + hdet.config.min_intro_seconds
                        ELSE default)

\* No drop follows the rise, the search span lies before start +
\* maxIntroSeconds, and nothing is extended: the end is the search span.
C25_Witness ==
    /\ hdetResult.called
    /\ Rises # {} /\ Drops = {}
    /\ SearchSpan < RiseStart + hdet.config.max_intro_seconds
    /\ hdet.config.min_intro_seconds = 0
    /\ hdetResult.returned.end = 1000 * SearchSpan

\* C26: every returned Boundaries has end - start >= minIntroSeconds; where
\* the scanned end lies too close, the end is start + minIntroSeconds and
\* the start is still the first rise's.
C26_MinimumDurationByMovingEnd ==
    (hdetResult.called /\ hdetResult.returned # None) =>
        /\ hdetResult.returned.end - hdetResult.returned.start
              >= 1000 * hdet.config.min_intro_seconds
        /\ hdetResult.returned.start = 1000 * RiseStart
        /\ ScannedEnd - RiseStart < hdet.config.min_intro_seconds =>
              hdetResult.returned.end = 1000 * (RiseStart + hdet.config.min_intro_seconds)

\* A drop ends the intro sooner than the minimum duration allows, and the
\* end is moved to start + minIntroSeconds.
C26_Witness ==
    /\ hdetResult.called
    /\ hdetResult.returned # None
    /\ Drops # {}
    /\ ScannedEnd - RiseStart < hdet.config.min_intro_seconds
    /\ hdetResult.returned.end = 1000 * (RiseStart + hdet.config.min_intro_seconds)
    /\ hdetResult.returned.start = 1000 * RiseStart

----------------------------------------------------------------------------
(* Claims about a stored fingerprint, under SpecStored. *)

\* C21: a stored fingerprint is never scored against windows extracted with
\* a sample rate other than the one it was created with: whenever the loaded
\* detector has scored a window, its sample_rate is the file's.
C21_SameRateCompared ==
    (ldetResult.called /\ ldetResult.scored # {}) => ldet.sample_rate = saved_sample_rate

\* The detect call of the loaded detector scored at least one window and
\* returned boundaries.
LoadedMatch ==
    ldetResult.called /\ ldetResult.scored # {} /\ ldetResult.returned # None

\* The score of the window at a scored offset: windows are scored in the
\* order of their offsets, one hop apart.
LoadedScoreAt(o) == ldetResult.scores[(o \div HopSamples(ldet.sample_rate)) + 1]

\* The scored offsets whose score no other scored window exceeds.
LoadedBestOffsets ==
    {o \in ldetResult.scored :
        \A q \in ldetResult.scored : ScoreLe(LoadedScoreAt(q), LoadedScoreAt(o))}

\* What detect is to return for a match at sample offset o, in milliseconds.
LoadedExpected(o) ==
    LET at     == lcall.search_start + (o * 1000) \div ldet.sample_rate
        length == (Frames(ldet.reference_fingerprint) * HopLength * 1000) \div ldet.sample_rate
    IN  Boundaries(Max(0, at - lcall.padding_ms), at + length + lcall.padding_ms,
                   LoadedScoreAt(o), "fingerprint")

\* C22: a match at sample offset o is returned as start = max(0, searchStart
\* + o/sampleRate - padding), end = searchStart + o/sampleRate +
\* windowSamples/sampleRate + padding, confidence = the best score and
\* method = "fingerprint".
C22_MatchConvertedToBoundaries ==
    LoadedMatch => \E o \in LoadedBestOffsets : ldetResult.returned = LoadedExpected(o)

\* A match found past the first window of a search that starts one second
\* in, with padding, and one found at the very start, where the clamp acts.
C22_Witness ==
    /\ LoadedMatch
    /\ lcall.search_start = 1000
    /\ lcall.padding_ms = 200
    /\ ldetResult.returned.start > 1000
    /\ 0 \notin LoadedBestOffsets

\* C23: when several window positions reach the maximum score, the reported
\* offset is the earliest of them.
C23_EarliestMaximumWins ==
    LoadedMatch => ldetResult.returned = LoadedExpected(Least(LoadedBestOffsets))

\* Two windows tie at the maximum and the detector reports a match.
C23_Witness ==
    /\ LoadedMatch
    /\ Cardinality(LoadedBestOffsets) >= 2
    /\ ScoreLt(ScoreZero, ldetResult.returned.confidence)

----------------------------------------------------------------------------
(* Claims about _compute_similarity, under SpecSimilarity. *)

\* C24: for matrices of the same rows and different frame counts Fr and Fq,
\* every element (row r, frame f) with f <= min(Fr, Fq) of the reference is
\* paired with the query's element at the same (r, f), and no element is
\* paired with one of another row or frame.
C24_SameRowAndFramePaired ==
    (simOut # None /\ Frames(simIn.ref_fp) # Frames(simIn.query_fp)) =>
        /\ \A r \in 1..2, f \in 1..Min(Frames(simIn.ref_fp), Frames(simIn.query_fp)) :
              <<<<r, f>>, <<r, f>>>> \in simOut.paired
        /\ \A p \in simOut.paired : p[1] = p[2]

----------------------------------------------------------------------------
(* Claims about the audio stream addressed, under SpecStreams. *)

\* The collaborators that address one stream: all but a render of every
\* audio track.
SingleStreamCalls ==
    {c \in DOMAIN addressed :
        addressed[c] # None /\ ~(c = "render_video" /\ Cardinality(addressed[c].streams) > 1)}

\* C28: for every stream layout, the fingerprint detector's extraction, the
\* heuristic detector's loudness measurement, the intro loudness
\* measurement and the render all address the stream whose index
\* get_default_audio_stream_index returned.
C28_SameStreamAddressed ==
    \A c \in SingleStreamCalls : addressed[c].streams = {audio_stream_index.index}

----------------------------------------------------------------------------
(* Claims about the loudness measurement, under SpecMeasure. *)

\* The windows for which ffmpeg yielded no loudness value.
NotMeasured == {i \in 1..Len(mdet.outcomes) : mdet.outcomes[i].kind # "I"}

\* The windows that rise over their predecessor by the threshold, among
\* the loudnesses detect collected.
CollectedRises ==
    {i \in 2..Len(mdetResult.windows) :
        mdetResult.windows[i] - mdetResult.windows[i - 1]
            >= mdet.config.loudness_threshold_db}

\* The windows after the start window that drop below it by the threshold.
CollectedDrops ==
    {j \in (Least(CollectedRises) + 1)..Len(mdetResult.windows) :
        mdetResult.windows[Least(CollectedRises)] - mdetResult.windows[j]
            >= mdet.config.loudness_threshold_db}

\* The windows whose loudness decided the returned start and end: the
\* start window, its predecessor and, where a drop ended the intro, the
\* window that dropped.
Triggers ==
    {Least(CollectedRises) - 1, Least(CollectedRises)}
        \cup (IF CollectedDrops = {} THEN {} ELSE {Least(CollectedDrops)})

\* C30: boundaries derive only from loudness values that were measured: no
\* returned start or end is triggered by a window whose loudness is a
\* substituted default.
C30_OnlyMeasuredLoudnessTriggers ==
    (mdetResult.called /\ mdetResult.returned # None) => Triggers \cap NotMeasured = {}

----------------------------------------------------------------------------
(* Claims about the restarted GUI, under SpecRestart. *)

\* Stop was pressed during the first run and Start again while that run's
\* thread or workers were still alive.
RestartedOverFirstRun == gui.starts = 2 /\ gui.stopped_run = 1 /\ gui.overlap

\* The second run is over: its thread has ended and none of its futures
\* is still pending or running.
SecondRunOver ==
    /\ gthread[2].pc \in {"done", "died"}
    /\ \A f \in RestartFiles : gtask[2][f].state \notin {"pending", "running"}

\* C29: after Stop and a second Start over a first run still alive, the
\* first run's thread never shuts down or clears the second run's executor
\* and never resets its is_processing flag, and the second run attempts
\* every remaining file (or finds its output written meanwhile).
C29_SecondRunUnaffected ==
    RestartedOverFirstRun =>
        /\ interference = {}
        /\ SecondRunOver =>
              \A f \in gthread[2].remaining : gtask[2][f].result \in {"success", "skipped"}

====================================================================================
